---- MODULE Spec2Model ----
(***************************************************************************)
(* A model of the windowed benchmarking engines of CS584DataStructures:    *)
(*   - BenchmarkPlot (src/plot.py): the windowed engine _doBenchmark and   *)
(*     the multi-pass combiner in __init__;                                *)
(*   - SIDBenchmark (src/sidgraphset.py, duplicated in src/plot.py): the   *)
(*     ramp-up / grow / shrink driver over three sample streams;           *)
(*   - MixedSIDBenchmarkPlot (src/mixedsidgraph.py and                     *)
(*     src/mixedsidbenchmarkplot.py): mixed replay and plotSizes.          *)
(*                                                                         *)
(* Wall-clock time is not modelled as a number.  A measurement returned by *)
(* Plot.benchmark is the record [lo, hi, div]: the time elapsed while      *)
(* function ran over samples[lo .. hi-1], divided by div.                  *)
(* The structure under test is observed through the log of the calls made  *)
(* on it.  A sample list is represented by its length (the engines only    *)
(* pass samples[i] on, they never look at the value), an operations list   *)
(* by the sequence of its tags.                                            *)
(* One engine runs per behaviour; the variables of the other engines keep  *)
(* their initial values.                                                   *)
(***************************************************************************)
EXTENDS Integers, Sequences, FiniteSets, TLC

VARIABLES
    pc,                 \* position of the running engine in its code
    err,                \* the exception that ended the run, "none" if none
    err_index,          \* the sample/operation index whose processing raised, -1 if none
    \* ---- BenchmarkPlot(function, samples, start, stop, benchmark_start, ...)
    start, stop, benchmark_start, benchmark_length, benchmark_interval, repeat,
    combine_method,     \* "median", "mean", or "any" for a reducer that is left symbolic
    p,                  \* _doBenchmark / replay loop position
    coordinates,        \* _doBenchmark's local list; self.coordinates in mixed replay
    runs,               \* BenchmarkPlot.__init__: the passes finished so far
    self_coordinates,   \* BenchmarkPlot: self.coordinates, <<>> until assigned
    calls,              \* applications of function: [pass, i, timed]
    \* ---- SIDBenchmark(search, insert, delete, *_samples, stop, bm_start, bm_length, bm_interval)
    bm_start, bm_length, bm_interval,
    len_search, len_insert, len_delete,
    search_index, insert_index, delete_index,
    next_benchmark, last_benchmark, data_structure_size,
    search_plot, insert_plot, delete_plot,
    search_log, insert_log, delete_log,
    \* ---- MixedSIDBenchmarkPlot(operations, search, insert, delete, bm_start, bm_length, bm_interval)
    operations,         \* the tags operations[i][0]
    op_log,             \* calls dispatched by doOperation: [i, fn, timed]
    size, current_benchmark, plot, sim_plot,
    \* ---- BinarySearchTree()
    impl,               \* "recursive": src/binarysearchtree.py, "iterative": src/datastructures/
    tree,               \* self.root: None or the node <<key, left, right>>
    bag,                \* for every key, the inserts made minus the deletes that returned True
    distinct,           \* no insert so far was of a key that was in the bag
    bst_result,         \* the last call on the tree and what it returned
    heap,               \* the Node objects of the iterative tree and self.root, by reference
    \* ---- graphSID(...) and SIDGraphSet(...)
    structures,         \* len(searches): the number of data structures
    data_set,           \* graphSID's loop variable i, 0 when no graph set is built
    benchmarks,         \* SIDGraphSet.__init__: the SIDBenchmarks finished so far
    graphs,             \* the plots lists of search_graph, insert_graph, delete_graph
    written,            \* the filenames written to, with the series written
    held                \* for every structure, the elements it holds between runs

cfgVars == <<start, stop, benchmark_start, benchmark_length, benchmark_interval, repeat,
             combine_method,
             bm_start, bm_length, bm_interval, len_search, len_insert, len_delete,
             operations>>
bpVars  == <<p, coordinates, runs, self_coordinates, calls>>
sidVars == <<search_index, insert_index, delete_index, next_benchmark, last_benchmark,
             data_structure_size, search_plot, insert_plot, delete_plot,
             search_log, insert_log, delete_log>>
mixVars == <<op_log>>
psVars  == <<size, current_benchmark, plot, sim_plot>>
bstVars == <<impl, tree, bag, distinct, bst_result, heap>>
gsVars  == <<structures, data_set, benchmarks, graphs, written, held>>
vars    == <<pc, err, err_index, cfgVars, bpVars, sidVars, mixVars, psVars, bstVars, gsVars>>

(***************************************************************************)
(* Bounds of the model.                                                    *)
(***************************************************************************)
MaxStop     == 5    \* stop, start, benchmark_start of the windowed engine
MaxLength   == 3    \* benchmark_length / bm_length
MaxInterval == 3    \* benchmark_interval / bm_interval
MaxRepeat   == 2    \* repeat
MaxSIDStop  == 6    \* stop and bm_start of SIDBenchmark
MaxSearch   == 8    \* len(search_samples)
MaxOps      == 4    \* len(operations) of the enumerated operation lists
MaxTime     == 3    \* the largest y of the series handed to the combiner directly
MaxKey      == 5    \* the keys given to the binary search tree are 1..MaxKey
MaxNodes    == 5    \* the most nodes the tree is grown to
MaxStructures == 2  \* len(searches) of a graph set

\* The most points of one pass that are kept.  With benchmark_interval >= 1 a
\* pass records at most stop - benchmark_start of them; only a pass that never
\* leaves its loop gets this far, and what it does from then on is no longer
\* written to coordinates and calls (the pass itself goes on).
MaxPoints   == MaxStop + 1

(***************************************************************************)
(* Python helpers.                                                         *)
(***************************************************************************)
Min(a, b) == IF a < b THEN a ELSE b

\* range(lo, hi) as a sequence: lo, lo+1, ..., hi-1 (empty when hi <= lo).
RangeSeq(lo, hi) == [j \in 1..(IF hi > lo THEN hi - lo ELSE 0) |-> lo + j - 1]

\* plot.py:30, mutated: the elapsed time is divided by the configured window length.
benchmarkNominal(lo, hi) == [lo |-> lo, hi |-> hi, div |-> benchmark_length]

\* Plot.benchmark(function, samples, start, stop): the elapsed time of
\* _benchmarkRun over [lo, hi), divided by (stop - start).
benchmark(lo, hi) == [lo |-> lo, hi |-> hi, div |-> hi - lo]

\* plot.py:33-37, mutated: what function closes over is reset when a new pass
\* begins, so the log only keeps the applications of pass k.
benchmarkRunFresh(log, k, lo, hi, timed) ==
    LET mine(c) == c.pass = k
    IN  SelectSeq(log, mine) \o [j \in 1..Len(RangeSeq(lo, hi)) |->
              [pass |-> k, i |-> RangeSeq(lo, hi)[j], timed |-> timed]]

\* Plot._benchmarkRun on the windowed engine's function: function(samples[i])
\* for i in range(lo, hi), appended to the call log of pass k.
benchmarkRun(log, k, lo, hi, timed) ==
    log \o [j \in 1..Len(RangeSeq(lo, hi)) |->
              [pass |-> k, i |-> RangeSeq(lo, hi)[j], timed |-> timed]]

\* The k-th smallest element of a sequence of integers (k = 1 .. Len(s)).
KthSmallest(s, k) ==
    CHOOSE v \in {s[i] : i \in 1..Len(s)} :
        /\ Cardinality({i \in 1..Len(s) : s[i] < v}) < k
        /\ Cardinality({i \in 1..Len(s) : s[i] <= v}) >= k

\* statistics.median, mutated: for an even count the lower middle value is taken.
Median2Low(s) == 2 * KthSmallest(s, (Len(s) + 1) \div 2)

\* statistics.median(bm_sizes), doubled so that it stays an integer: the middle
\* value for an odd count, the mean of the two middle values for an even one.
Median2(s) ==
    IF Len(s) % 2 = 1
      THEN 2 * KthSmallest(s, (Len(s) + 1) \div 2)
      ELSE KthSmallest(s, Len(s) \div 2) + KthSmallest(s, (Len(s) \div 2) + 1)

\* The sum of a sequence of numbers.
RECURSIVE Sum(_)
Sum(s) == IF s = <<>> THEN 0 ELSE s[1] + Sum(Tail(s))

\* plot.py:135, mutated: the reducer adds the values up and does not divide.
combineSum(m, ys) ==
    IF m = "any" THEN [combine_method |-> ys] ELSE [num |-> Sum(ys), den |-> 1]

\* plot.py:135  "combine_method(yvalues)".  statistics.median and
\* statistics.mean of numbers give the fraction num/den (Median2 is twice the
\* median, the mean is the sum over the count); any other reducer is kept as
\* the application to its argument list.
combine(m, ys) ==
    IF m = "median" THEN [num |-> Median2(ys), den |-> 2]
    ELSE IF m = "mean" THEN [num |-> Sum(ys), den |-> Len(ys)]
    ELSE [combine_method |-> ys]

(***************************************************************************)
(* BenchmarkPlot: src/plot.py                                              *)
(***************************************************************************)
\* plot.py:100  "if repeat < 0: raise ValueError(...)"
RepeatRejected(r) == r < 0

\* plot.py:150-154, mutated: the upper bound is not checked.
BoundsErrorNoUpper(s, e, bs) == bs < s

\* plot.py:150-154  the two bounds checks of _doBenchmark.
BoundsError(s, e, bs) == bs < s \/ bs > e

\* plot.py:160  "for i in range(0, benchmark_start)".
RampRange(s, bs) == RangeSeq(0, bs)

\* plot.py:170, mutated: the window is not cut at stop.
WindowEndNoClamp(pp, len, e) == pp + len

\* plot.py:170  "q = min(p + benchmark_length, stop)".
WindowEnd(pp, len, e) == Min(pp + len, e)

\* plot.py:173, mutated: the next window starts where this one started.
NextBenchmarkStalls(pp, len, interval) == pp

\* plot.py:173, mutated: the next window is counted from the end of this one.
NextBenchmarkFromEnd(pp, len, interval) == pp + len + interval

\* plot.py:173  "next_benchmark = p + benchmark_interval".
NextBenchmark(pp, len, interval) == pp + interval

\* plot.py:176, mutated: p is not advanced past the timed window.
UntimedStartAtWindow(pp, q) == pp

\* plot.py:176  "p = q": the untimed stretch starts where the window ended.
UntimedStart(pp, q) == q

\* The untimed stretch never ending before the position it starts at.
UntimedEndForward(next, e) == IF Min(next, e) < p THEN p ELSE Min(next, e)

\* plot.py:177  "q = min(next_benchmark, stop)".
UntimedEnd(next, e) == Min(next, e)

\* The pass that is running, or about to run (1-based).
CurrentPass == Len(runs) + 1

\* plot.py:29-31  the value timeit returns for the window of pass k: every
\* pass takes its own measurement of the same window.
Measured(k, time) == [pass |-> k, lo |-> time.lo, hi |-> time.hi, div |-> time.div]

\* plot.py:98-101  BenchmarkPlot.__init__ up to the repeat check.
BPConstruct ==
    /\ UNCHANGED <<bstVars, gsVars>>
    /\ pc = "bp_new"
    /\ IF RepeatRejected(repeat)
         THEN /\ pc' = "bp_error"
              /\ err' = "ValueError: repeat"
         ELSE /\ pc' = "bp_for"
              /\ err' = err
    /\ UNCHANGED <<err_index, cfgVars, bpVars, sidVars, mixVars, psVars>>

\* plot.py:103-124  the next call of _doBenchmark (the only one when repeat == 1).
BPNextPass ==
    /\ UNCHANGED <<bstVars, gsVars>>
    /\ pc = "bp_for"
    /\ Len(runs) < repeat
    /\ pc' = "bp_check"
    /\ UNCHANGED <<err, err_index, cfgVars, bpVars, sidVars, mixVars, psVars>>

\* plot.py:150-157  _doBenchmark: bounds checks, then "coordinates = []".
DBCheck ==
    /\ UNCHANGED <<bstVars, gsVars>>
    /\ pc = "bp_check"
    /\ IF BoundsError(start, stop, benchmark_start)
         THEN /\ pc' = "bp_error"
              /\ err' = "ValueError: benchmark_start"
              /\ UNCHANGED coordinates
         ELSE /\ pc' = "bp_ramp"
              /\ err' = err
              /\ coordinates' = <<>>
    /\ UNCHANGED <<err_index, cfgVars, p, runs, self_coordinates, calls,
                   sidVars, mixVars, psVars>>

\* plot.py:159-167  the untimed jog to the first benchmark, then "p = benchmark_start".
DBRampUp ==
    /\ UNCHANGED <<bstVars, gsVars>>
    /\ pc = "bp_ramp"
    /\ calls' = calls \o [j \in 1..Len(RampRange(start, benchmark_start)) |->
                            [pass |-> CurrentPass,
                             i |-> RampRange(start, benchmark_start)[j],
                             timed |-> FALSE]]
    /\ p' = benchmark_start
    /\ pc' = "bp_loop"
    /\ UNCHANGED <<err, err_index, cfgVars, coordinates, runs, self_coordinates,
                   sidVars, mixVars, psVars>>

\* The logs of the running pass are full (see MaxPoints).
Saturated == Len(coordinates) >= MaxPoints

\* plot.py:168-176  "while p < stop": the timed window, its point,
\* next_benchmark, and "p = q".
DBWindow ==
    /\ UNCHANGED <<bstVars, gsVars>>
    /\ pc = "bp_loop"
    /\ p < stop
    /\ LET q1    == WindowEnd(p, benchmark_length, stop)
           time  == Measured(CurrentPass, benchmark(p, q1))
       IN  /\ IF Saturated
                THEN UNCHANGED <<coordinates, calls>>
                ELSE /\ coordinates' = Append(coordinates, [x |-> p, y |-> time])
                     /\ calls' = benchmarkRun(calls, CurrentPass, p, q1, TRUE)
           /\ next_benchmark' = NextBenchmark(p, benchmark_length, benchmark_interval)
           /\ p' = UntimedStart(p, q1)
    /\ pc' = "bp_untimed"
    /\ UNCHANGED <<err, err_index, cfgVars, runs, self_coordinates, mixVars, psVars,
                   search_index, insert_index, delete_index, last_benchmark,
                   data_structure_size, search_plot, insert_plot, delete_plot,
                   search_log, insert_log, delete_log>>

\* plot.py:177-182  the untimed stretch up to min(next_benchmark, stop), then "p = q".
DBUntimed ==
    /\ UNCHANGED <<bstVars, gsVars>>
    /\ pc = "bp_untimed"
    /\ LET q2 == UntimedEnd(next_benchmark, stop)
       IN  /\ calls' = IF Saturated THEN calls
                       ELSE benchmarkRun(calls, CurrentPass, p, q2, FALSE)
           /\ p' = q2
    /\ pc' = "bp_loop"
    /\ UNCHANGED <<err, err_index, cfgVars, coordinates, runs, self_coordinates,
                   sidVars, mixVars, psVars>>

\* plot.py:184  "return coordinates", received by __init__ (plot.py:104, 116).
DBReturn ==
    /\ UNCHANGED <<bstVars, gsVars>>
    /\ pc = "bp_loop"
    /\ ~(p < stop)
    /\ runs' = Append(runs, coordinates)
    /\ pc' = "bp_for"
    /\ UNCHANGED <<err, err_index, cfgVars, p, coordinates, self_coordinates, calls,
                   sidVars, mixVars, psVars>>

\* plot.py:126-135, mutated: every yvalues[i] is taken from the first run.
CombinedFirstPass(j) == combine(combine_method, [i \in 1..Len(runs) |-> runs[1][j].y])

\* plot.py:126-135  the combined y of position j: combine_method applied to
\* the list of the j-th y of every run, in run order.
Combined(j) == combine(combine_method, [i \in 1..Len(runs) |-> runs[i][j].y])

\* plot.py:103-112 (repeat == 1) and plot.py:126-135 (otherwise).
BPCombine ==
    /\ UNCHANGED <<bstVars, gsVars>>
    /\ pc = "bp_for"
    /\ ~(Len(runs) < repeat)
    /\ IF repeat = 1
         THEN /\ self_coordinates' = runs[1]
              /\ pc' = "bp_done"
              /\ err' = err
         ELSE IF runs = <<>>
         THEN \* "len(runs[0])" on the empty list
              /\ pc' = "bp_error"
              /\ err' = "IndexError"
              /\ UNCHANGED self_coordinates
         ELSE /\ self_coordinates' =
                    [j \in 1..Len(runs[1]) |-> [x |-> runs[1][j].x, y |-> Combined(j)]]
              /\ pc' = "bp_done"
              /\ err' = err
    /\ UNCHANGED <<err_index, cfgVars, p, coordinates, runs, calls,
                   sidVars, mixVars, psVars>>

(***************************************************************************)
(* SIDBenchmark: src/sidgraphset.py (the same code is in src/plot.py)      *)
(***************************************************************************)
Max(a, b) == IF a > b THEN a ELSE b

\* Reading a range of samples, mutated: the last sample of the range is not
\* passed to function.
ReadEndSkipsLast(len, lo, hi) == IF hi <= lo THEN lo ELSE Min(hi, Max(lo, len)) - 1

\* Reading a range of samples, mutated: an empty range moves the index back to
\* its upper bound.
ReadEndJumps(len, lo, hi) == IF hi <= lo THEN hi ELSE Min(hi, Max(lo, len))

\* for i in range(lo, hi): function(samples[i]) on a list of length len stops
\* with IndexError at the first i >= len.  ReadEnd is the index after the last
\* sample passed to function, ReadFails says whether IndexError is raised.
ReadEnd(len, lo, hi) == IF hi <= lo THEN lo ELSE Min(hi, Max(lo, len))
ReadFails(len, lo, hi) == hi > lo /\ hi > len

\* sidgraphset.py:206, mutated: the comparison is turned around.
StartTooSmallReversed(bs, bl) == bs > bl

\* sidgraphset.py:206  "if bm_start < bm_length: raise ValueError".
StartTooSmall(bs, bl) == bs < bl

\* sidgraphset.py:254, mutated: the loop stops one insert early.
GrowContinuesUntilLast(ii, e) == ii + 1 < e

\* sidgraphset.py:254, mutated: the loop body also runs when insert_index is stop.
GrowContinuesThroughStop(ii, e) == ii <= e

\* sidgraphset.py:254  "while insert_index < stop".
GrowContinues(ii, e) == ii < e

\* The shrink loop running once more when the size has come down to bm_start.
ShrinkContinuesOnceMore(sz, bs) == sz >= bs

\* sidgraphset.py:302  "while data_structure_size > bm_start".
ShrinkContinues(sz, bs) == sz > bs

\* sidgraphset.py:259, mutated: next_benchmark is not moved on.
GrowBoundaryStalls(nb, interval, e) == nb

\* sidgraphset.py:259  "next_benchmark = min(next_benchmark + bm_interval, stop)".
GrowBoundary(nb, interval, e) == Min(nb + interval, e)

\* sidgraphset.py:206-211, 242-245  __init__ and the first lines of _doBenchmark.
SIDConstruct ==
    /\ UNCHANGED <<bstVars, gsVars>>
    /\ pc = "sid_new"
    /\ IF StartTooSmall(bm_start, bm_length)
         THEN /\ pc' = "sid_error"
              /\ err' = "ValueError: bm_start"
              /\ UNCHANGED sidVars
         ELSE /\ pc' = "sid_ramp"
              /\ err' = err
              /\ search_plot' = <<>> /\ insert_plot' = <<>> /\ delete_plot' = <<>>
              /\ search_index' = 0 /\ insert_index' = 0 /\ delete_index' = 0
              /\ next_benchmark' = bm_start
              /\ UNCHANGED <<last_benchmark, data_structure_size,
                             search_log, insert_log, delete_log>>
    /\ UNCHANGED <<err_index, cfgVars, bpVars, mixVars, psVars>>

\* sidgraphset.py:247-251  step 1: bm_start untimed inserts.
SIDRampUp ==
    /\ UNCHANGED <<bstVars, gsVars>>
    /\ pc = "sid_ramp"
    /\ LET hi  == insert_index + bm_start
           end == ReadEnd(len_insert, insert_index, hi)
       IN  /\ insert_log' = insert_log \o RangeSeq(insert_index, end)
           /\ insert_index' = end
           /\ IF ReadFails(len_insert, insert_index, hi)
                THEN pc' = "sid_error" /\ err' = "IndexError" /\ err_index' = end
                ELSE pc' = "sid_grow" /\ UNCHANGED <<err, err_index>>
    /\ UNCHANGED <<cfgVars, bpVars, mixVars, psVars, search_index, delete_index,
                   next_benchmark, last_benchmark, data_structure_size,
                   search_plot, insert_plot, delete_plot, search_log, delete_log>>

\* sidgraphset.py:254-273  loop test, steps 2a, 2b and 2c (the timed searches).
SIDGrowSearch ==
    /\ UNCHANGED <<bstVars, gsVars>>
    /\ pc = "sid_grow"
    /\ GrowContinues(insert_index, stop)
    /\ last_benchmark' = <<next_benchmark>>
    /\ next_benchmark' = GrowBoundary(next_benchmark, bm_interval, stop)
    /\ LET hi  == search_index + bm_length
           end == ReadEnd(len_search, search_index, hi)
       IN  /\ search_log' = search_log \o RangeSeq(search_index, end)
           /\ IF ReadFails(len_search, search_index, hi)
                THEN /\ pc' = "sid_error" /\ err' = "IndexError" /\ err_index' = end
                     /\ UNCHANGED <<search_plot, search_index>>
                ELSE /\ search_plot' = Append(search_plot,
                            [x |-> insert_index, y |-> benchmark(search_index, hi)])
                     /\ search_index' = hi
                     /\ pc' = "sid_grow_d"
                     /\ UNCHANGED <<err, err_index>>
    /\ UNCHANGED <<cfgVars, bpVars, mixVars, psVars, insert_index, delete_index,
                   data_structure_size, insert_plot, delete_plot, insert_log, delete_log>>

\* sidgraphset.py:275-287  step 2d: the timed inserts.
SIDGrowInsert ==
    /\ UNCHANGED <<bstVars, gsVars>>
    /\ pc = "sid_grow_d"
    /\ LET hi  == insert_index + bm_length
           end == ReadEnd(len_insert, insert_index, hi)
       IN  /\ insert_log' = insert_log \o RangeSeq(insert_index, end)
           /\ IF ReadFails(len_insert, insert_index, hi)
                THEN /\ pc' = "sid_error" /\ err' = "IndexError" /\ err_index' = end
                     /\ UNCHANGED <<insert_plot, insert_index>>
                ELSE /\ insert_plot' = Append(insert_plot,
                            [x |-> insert_index, y |-> benchmark(insert_index, hi)])
                     /\ insert_index' = hi
                     /\ pc' = "sid_grow_e"
                     /\ UNCHANGED <<err, err_index>>
    /\ UNCHANGED <<cfgVars, bpVars, mixVars, psVars, search_index, delete_index,
                   next_benchmark, last_benchmark, data_structure_size,
                   search_plot, delete_plot, search_log, delete_log>>

\* sidgraphset.py:289-294  step 2e: untimed inserts while insert_index < next_benchmark.
SIDGrowUntimed ==
    /\ UNCHANGED <<bstVars, gsVars>>
    /\ pc = "sid_grow_e"
    /\ LET end == ReadEnd(len_insert, insert_index, next_benchmark)
       IN  /\ insert_log' = insert_log \o RangeSeq(insert_index, end)
           /\ insert_index' = end
           /\ IF ReadFails(len_insert, insert_index, next_benchmark)
                THEN pc' = "sid_error" /\ err' = "IndexError" /\ err_index' = end
                ELSE pc' = "sid_grow" /\ UNCHANGED <<err, err_index>>
    /\ UNCHANGED <<cfgVars, bpVars, mixVars, psVars, search_index, delete_index,
                   next_benchmark, last_benchmark, data_structure_size,
                   search_plot, insert_plot, delete_plot, search_log, delete_log>>

\* sidgraphset.py:254  the grow loop's test fails: the grow phase is over.
SIDGrowExit ==
    /\ UNCHANGED <<bstVars, gsVars>>
    /\ pc = "sid_grow"
    /\ ~GrowContinues(insert_index, stop)
    /\ pc' = "sid_step3"
    /\ UNCHANGED <<err, err_index, cfgVars, bpVars, sidVars, mixVars, psVars>>

\* sidgraphset.py:296-301  step 3 and "data_structure_size = insert_index".
\* last_benchmark is a local that only the grow loop's body assigns.
SIDShrinkSetup ==
    /\ UNCHANGED <<bstVars, gsVars>>
    /\ pc = "sid_step3"
    /\ IF last_benchmark = <<>>
         THEN /\ pc' = "sid_error" /\ err' = "UnboundLocalError"
              /\ UNCHANGED <<next_benchmark, data_structure_size>>
         ELSE /\ next_benchmark' = last_benchmark[1] + bm_length
              /\ data_structure_size' = insert_index
              /\ pc' = "sid_shrink"
              /\ err' = err
    /\ UNCHANGED <<err_index, cfgVars, bpVars, mixVars, psVars,
                   search_index, insert_index, delete_index, last_benchmark,
                   search_plot, insert_plot, delete_plot,
                   search_log, insert_log, delete_log>>

\* sidgraphset.py:302-309  loop test and step 4a: untimed deletes while
\* data_structure_size > next_benchmark.
SIDShrinkUntimed ==
    /\ UNCHANGED <<bstVars, gsVars>>
    /\ pc = "sid_shrink"
    /\ ShrinkContinues(data_structure_size, bm_start)
    /\ LET want == Max(data_structure_size - next_benchmark, 0)
           hi   == delete_index + want
           end  == ReadEnd(len_delete, delete_index, hi)
       IN  /\ delete_log' = delete_log \o RangeSeq(delete_index, end)
           /\ delete_index' = end
           /\ data_structure_size' = data_structure_size - (end - delete_index)
           /\ IF ReadFails(len_delete, delete_index, hi)
                THEN pc' = "sid_error" /\ err' = "IndexError" /\ err_index' = end
                ELSE pc' = "sid_shrink_b" /\ UNCHANGED <<err, err_index>>
    /\ UNCHANGED <<cfgVars, bpVars, mixVars, psVars, search_index, insert_index,
                   next_benchmark, last_benchmark,
                   search_plot, insert_plot, delete_plot, search_log, insert_log>>

\* sidgraphset.py:311-328  steps 4b and 4c: the size is decreased first, then
\* bm_length deletes are timed and the point is recorded.
SIDShrinkTimed ==
    /\ UNCHANGED <<bstVars, gsVars>>
    /\ pc = "sid_shrink_b"
    /\ data_structure_size' = data_structure_size - bm_length
    /\ LET hi  == delete_index + bm_length
           end == ReadEnd(len_delete, delete_index, hi)
       IN  /\ delete_log' = delete_log \o RangeSeq(delete_index, end)
           /\ IF ReadFails(len_delete, delete_index, hi)
                THEN /\ pc' = "sid_error" /\ err' = "IndexError" /\ err_index' = end
                     /\ UNCHANGED <<delete_plot, delete_index, next_benchmark>>
                ELSE /\ delete_plot' = Append(delete_plot,
                            [x |-> data_structure_size',
                             y |-> benchmark(delete_index, hi)])
                     /\ delete_index' = hi
                     /\ next_benchmark' = next_benchmark - bm_interval
                     /\ pc' = "sid_shrink"
                     /\ UNCHANGED <<err, err_index>>
    /\ UNCHANGED <<cfgVars, bpVars, mixVars, psVars, search_index, insert_index,
                   last_benchmark, search_plot, insert_plot, search_log, insert_log>>

\* sidgraphset.py:302  the shrink loop's test fails: _doBenchmark returns.
SIDShrinkExit ==
    /\ UNCHANGED <<bstVars, gsVars>>
    /\ pc = "sid_shrink"
    /\ ~ShrinkContinues(data_structure_size, bm_start)
    /\ pc' = "sid_done"
    /\ UNCHANGED <<err, err_index, cfgVars, bpVars, sidVars, mixVars, psVars>>

(***************************************************************************)
(* MixedSIDBenchmarkPlot: src/mixedsidgraph.py (replay and plotSizes are   *)
(* repeated in src/mixedsidbenchmarkplot.py)                               *)
(***************************************************************************)
\* mixedsidgraph.py:102-104  the constants for specifying operations.
SEARCH == 1
INSERT == 2
DELETE == 3

\* A tag that is none of the three constants.
UnknownTag == DELETE + 1

\* operations[i][0] for a 0-based i.
op(i) == operations[i + 1]

\* mixedsidgraph.py:172-182, mutated: no else branch, an unknown tag is skipped.
doOperationSkipsUnknown(tag) ==
    IF tag = SEARCH THEN "search"
    ELSE IF tag = INSERT THEN "insert"
    ELSE IF tag = DELETE THEN "delete"
    ELSE "skip"

\* mixedsidgraph.py:172-182  doOperation: the function the tag selects, or the
\* ValueError of the else branch.
doOperation(tag) ==
    IF tag = SEARCH THEN "search"
    ELSE IF tag = INSERT THEN "insert"
    ELSE IF tag = DELETE THEN "delete"
    ELSE "raise"

\* mixedsidgraph.py:109-118, mutated: the window reports the size it started from.
simOpNoChange(tag) == 0

\* mixedsidgraph.py:109-118  _simOp: the change in size the tag stands for
\* (simOpRaises tells when it raises ValueError instead of returning).
simOp(tag) ==
    IF tag = SEARCH THEN 0
    ELSE IF tag = INSERT THEN 1
    ELSE IF tag = DELETE THEN -1
    ELSE 0

\* mixedsidgraph.py:118  _simOp falls through its three tests and raises.
simOpRaises(tag) == tag # SEARCH /\ tag # INSERT /\ tag # DELETE

\* Processing operations[i] raises: IndexError from operations[i] when i is
\* past the end, else ValueError when doOperation raises.
OpFails(i) == i >= Len(operations) \/ doOperation(op(i)) = "raise"
OpError(i) == IF i >= Len(operations) THEN "IndexError" ELSE "ValueError: op"

\* The same for plotSizes, which goes through _simOp.
SimFails(i) == i >= Len(operations) \/ simOpRaises(op(i))
SimError(i) == IF i >= Len(operations) THEN "IndexError" ELSE "ValueError: op"

\* for i in range(lo, hi): doOperation(..., operations[i]) stops at the first
\* index that raises; OpsEnd is that index, or hi when none raises.
OpsEnd(lo, hi) ==
    IF hi <= lo THEN lo
    ELSE IF \E i \in lo..(hi - 1) : OpFails(i)
    THEN CHOOSE i \in lo..(hi - 1) : OpFails(i) /\ \A j \in lo..(i - 1) : ~OpFails(j)
    ELSE hi

SimEnd(lo, hi) ==
    IF hi <= lo THEN lo
    ELSE IF \E i \in lo..(hi - 1) : SimFails(i)
    THEN CHOOSE i \in lo..(hi - 1) : SimFails(i) /\ \A j \in lo..(i - 1) : ~SimFails(j)
    ELSE hi

\* The calls doOperation makes for operations[lo .. end-1], appended to the log.
runOps(log, lo, end, timed) ==
    log \o [j \in 1..(end - lo) |->
              [i |-> lo + j - 1, fn |-> doOperation(op(lo + j - 1)), timed |-> timed]]

\* mixedsidgraph.py:160, mutated: the next window is counted from the position
\* after this one's start.
ReplayNextOffByOne(pp, interval) == pp + interval + 1

\* mixedsidgraph.py:160  "next_benchmark = p + bm_interval".
ReplayNext(pp, interval) == pp + interval

\* mixedsidgraph.py:132-150  __init__: the operations up to bm_start, then "p = bm_start".
MixRampUp ==
    /\ UNCHANGED <<bstVars, gsVars>>
    /\ pc = "mx_new"
    /\ coordinates' = <<>>
    /\ LET end == OpsEnd(0, bm_start)
       IN  /\ op_log' = runOps(op_log, 0, end, FALSE)
           /\ IF end < bm_start
                THEN /\ pc' = "mx_error" /\ err' = OpError(end) /\ err_index' = end
                     /\ UNCHANGED p
                ELSE /\ pc' = "mx_loop" /\ p' = bm_start
                     /\ UNCHANGED <<err, err_index>>
    /\ UNCHANGED <<cfgVars, runs, self_coordinates, calls, sidVars, psVars>>

\* mixedsidgraph.py:151-170  one iteration of "while p < len(operations)".
MixWindow ==
    /\ UNCHANGED <<bstVars, gsVars>>
    /\ pc = "mx_loop"
    /\ p < Len(operations)
    /\ LET q1   == Min(p + bm_length, Len(operations))
           end1 == OpsEnd(p, q1)
           log1 == runOps(op_log, p, end1, TRUE)
           next == ReplayNext(p, bm_interval)
           p2   == q1
           q2   == Min(next, Len(operations))
           end2 == OpsEnd(p2, q2)
       IN  IF end1 < q1
             THEN \* doOperation raises inside Plot.benchmark: no point is appended
                  /\ op_log' = log1
                  /\ pc' = "mx_error" /\ err' = OpError(end1) /\ err_index' = end1
                  /\ UNCHANGED <<p, coordinates>>
             ELSE /\ coordinates' = Append(coordinates, [x |-> p, y |-> benchmark(p, q1)])
                  /\ op_log' = runOps(log1, p2, end2, FALSE)
                  /\ IF end2 < q2
                       THEN /\ pc' = "mx_error" /\ err' = OpError(end2) /\ err_index' = end2
                            /\ p' = p2
                       ELSE /\ p' = q2
                            /\ UNCHANGED <<pc, err, err_index>>
    /\ UNCHANGED <<cfgVars, runs, self_coordinates, calls, sidVars, psVars>>

\* mixedsidgraph.py:151  the loop's test fails: the constructor returns.
MixReturn ==
    /\ UNCHANGED <<bstVars, gsVars>>
    /\ pc = "mx_loop"
    /\ ~(p < Len(operations))
    /\ pc' = "mx_done"
    /\ UNCHANGED <<err, err_index, cfgVars, bpVars, sidVars, mixVars, psVars>>

\* mixedsidgraph.py:211-223, mutated: bm_sizes starts with the size before the
\* window's first operation.
RECURSIVE BmSizesBefore(_, _, _)
BmSizesBefore(sz, lo, hi) ==
    IF hi <= lo THEN <<>>
    ELSE <<sz>> \o BmSizesBefore(sz + simOp(op(lo)), lo + 1, hi)

\* mixedsidgraph.py:211-223  bm_sizes: the running sizes over operations[lo .. hi-1],
\* the first from size, each next one from bm_sizes[-1].
RECURSIVE BmSizes(_, _, _)
BmSizes(sz, lo, hi) ==
    IF hi <= lo THEN <<>>
    ELSE LET s1 == sz + simOp(op(lo)) IN <<s1>> \o BmSizes(s1, lo + 1, hi)

\* mixedsidgraph.py:197-198, 235-236, mutated: the untimed operations are not counted.
SimRangeIgnored(sz, lo, hi) == sz

\* mixedsidgraph.py:197-198, 235-236  "size += _simOp(op(index))" over range(lo, hi).
RECURSIVE SimRange(_, _, _)
SimRange(sz, lo, hi) ==
    IF hi <= lo THEN sz ELSE SimRange(sz + simOp(op(lo)), lo + 1, hi)

\* mixedsidgraph.py:81-84  MixedSIDPgfPlot.run calls plotSizes on the plot it
\* built last, after that plot's replay has finished.
PSCall ==
    /\ UNCHANGED <<bstVars, gsVars>>
    /\ pc = "mx_done"
    /\ pc' = "ps_new"
    /\ UNCHANGED <<err, err_index, cfgVars, bpVars, sidVars, mixVars, psVars>>

\* mixedsidgraph.py:190-201, mutated: the operations before bm_start are
\* dispatched to the structure as well.
PSRampUpApplies ==
    /\ UNCHANGED <<bstVars, gsVars>>
    /\ pc = "ps_new"
    /\ plot' = <<>>
    /\ LET end == SimEnd(0, bm_start)
       IN  /\ size' = SimRange(0, 0, end)
           /\ op_log' = runOps(op_log, 0, end, FALSE)
           /\ IF end < bm_start
                THEN /\ pc' = "ps_error" /\ err' = SimError(end) /\ err_index' = end
                     /\ UNCHANGED current_benchmark
                ELSE /\ pc' = "ps_loop" /\ current_benchmark' = bm_start
                     /\ UNCHANGED <<err, err_index>>
    /\ UNCHANGED <<cfgVars, bpVars, sidVars, sim_plot>>

\* mixedsidgraph.py:190-201  plotSizes up to the loop: the operations before bm_start.
PSRampUp ==
    /\ UNCHANGED <<bstVars, gsVars>>
    /\ pc = "ps_new"
    /\ plot' = <<>>
    /\ LET end == SimEnd(0, bm_start)
       IN  /\ size' = SimRange(0, 0, end)
           /\ IF end < bm_start
                THEN /\ pc' = "ps_error" /\ err' = SimError(end) /\ err_index' = end
                     /\ UNCHANGED current_benchmark
                ELSE /\ pc' = "ps_loop" /\ current_benchmark' = bm_start
                     /\ UNCHANGED <<err, err_index>>
    /\ UNCHANGED <<cfgVars, bpVars, sidVars, mixVars, sim_plot>>

\* mixedsidgraph.py:202-239  one iteration of "while current_benchmark < len(operations)".
PSWindow ==
    /\ UNCHANGED <<bstVars, gsVars>>
    /\ pc = "ps_loop"
    /\ current_benchmark < Len(operations)
    /\ LET next_bm  == Min(Len(operations), current_benchmark + bm_interval)
           end_of_benchmark == Min(Len(operations), current_benchmark + bm_length)
           end1     == SimEnd(current_benchmark, end_of_benchmark)
           bm_sizes == BmSizes(size, current_benchmark, end_of_benchmark)
           end2     == SimEnd(end_of_benchmark, next_bm)
       IN  IF end1 < end_of_benchmark
             THEN \* _simOp raises while bm_sizes is built: size and plot are as before
                  /\ pc' = "ps_error" /\ err' = SimError(end1) /\ err_index' = end1
                  /\ UNCHANGED <<size, current_benchmark, plot>>
             ELSE /\ plot' = Append(plot, [x |-> current_benchmark, y2 |-> Median2(bm_sizes)])
                  /\ size' = SimRange(bm_sizes[Len(bm_sizes)], end_of_benchmark, end2)
                  /\ IF end2 < next_bm
                       THEN /\ pc' = "ps_error" /\ err' = SimError(end2) /\ err_index' = end2
                            /\ UNCHANGED current_benchmark
                       ELSE /\ current_benchmark' = next_bm
                            /\ UNCHANGED <<pc, err, err_index>>
    /\ UNCHANGED <<cfgVars, bpVars, sidVars, mixVars, sim_plot>>

\* mixedsidgraph.py:241  "return plot": sim_plot is the caller's value, <<>>
\* while nothing has been returned.
PSReturn ==
    /\ UNCHANGED <<bstVars, gsVars>>
    /\ pc = "ps_loop"
    /\ ~(current_benchmark < Len(operations))
    /\ sim_plot' = <<plot>>
    /\ pc' = "ps_done"
    /\ UNCHANGED <<err, err_index, cfgVars, bpVars, sidVars, mixVars,
                   size, current_benchmark, plot>>

(***************************************************************************)
(* BinarySearchTree: src/binarysearchtree.py (recursive) and               *)
(* src/datastructures/binarysearchtree.py (iterative; the Node methods     *)
(* replace and fetchIOS are the same in both files).                       *)
(* A node is the tuple <<key, left, right>>, None is the empty tuple.  A   *)
(* value returned by search is <<key>>, or None.                           *)
(***************************************************************************)
\* binarysearchtree.py:9  "self.root = None".
None == <<>>

\* binarysearchtree.py:44-47  Node.__init__ and the three fields of a node.
Node(k) == <<k, None, None>>
Key(n) == n[1]
Left(n) == n[2]
Right(n) == n[3]

\* binarysearchtree.py:49-68, mutated: a key equal to the node's goes left.
RECURSIVE NodeInsertEqualLeft(_, _)
NodeInsertEqualLeft(n, k) ==
    IF k <= Key(n)
      THEN IF Left(n) = None
             THEN <<Key(n), Node(k), Right(n)>>
             ELSE <<Key(n), NodeInsertEqualLeft(Left(n), k), Right(n)>>
      ELSE IF Right(n) = None
             THEN <<Key(n), Left(n), Node(k)>>
             ELSE <<Key(n), Left(n), NodeInsertEqualLeft(Right(n), k)>>

\* binarysearchtree.py:49-68  Node.insert: self after key was added below it.
RECURSIVE NodeInsert(_, _)
NodeInsert(n, k) ==
    IF k < Key(n)
      THEN IF Left(n) = None
             THEN <<Key(n), Node(k), Right(n)>>
             ELSE <<Key(n), NodeInsert(Left(n), k), Right(n)>>
      ELSE IF Right(n) = None
             THEN <<Key(n), Left(n), Node(k)>>
             ELSE <<Key(n), Left(n), NodeInsert(Right(n), k)>>

\* binarysearchtree.py:11-18  BinarySearchTree.insert: the new self.root.
TreeInsert(t, k) == IF t = None THEN Node(k) ELSE NodeInsert(t, k)

\* binarysearchtree.py:70-85, mutated: only the node itself is looked at.
NodeSearchHere(n, k) == IF Key(n) = k THEN <<Key(n)>> ELSE None

\* binarysearchtree.py:70-85  Node.search.  The right subtree is searched
\* whenever the left one is not, also for a smaller key with no left child.
RECURSIVE NodeSearch(_, _)
NodeSearch(n, k) ==
    IF Key(n) = k THEN <<Key(n)>>
    ELSE IF k < Key(n) /\ Left(n) # None THEN NodeSearch(Left(n), k)
    ELSE IF Right(n) # None THEN NodeSearch(Right(n), k)
    ELSE None

\* binarysearchtree.py:20-24  BinarySearchTree.search.
TreeSearch(t, k) == IF t = None THEN None ELSE NodeSearch(t, k)

\* binarysearchtree.py:158-162  the loop of fetchIOS: curr after walking left
\* from n as far as possible.
RECURSIVE Leftmost(_)
Leftmost(n) == IF Left(n) # None THEN Leftmost(Left(n)) ELSE n

\* binarysearchtree.py:158-167  the subtree n after "prev.left = curr.right",
\* where curr is the leftmost node below n and prev its parent (n has a left
\* child).
RECURSIVE DetachLeftmost(_)
DetachLeftmost(n) ==
    IF Left(Left(n)) # None
      THEN <<Key(n), DetachLeftmost(Left(n)), Right(n)>>
      ELSE <<Key(n), Right(Left(n)), Right(n)>>

\* binarysearchtree.py:143-173  fetchIOS, called by replace on a node whose
\* right child has a left child: the freed in-order successor (its right link
\* cleared) and self with the successor taken out of its right subtree.
fetchIOS(n) ==
    [ios  |-> <<Key(Leftmost(Right(n))), Left(Leftmost(Right(n))), None>>,
     self |-> <<Key(n), Left(n), DetachLeftmost(Right(n))>>]

\* binarysearchtree.py:131-135, mutated: the right child takes the place of the
\* node without "self.right.left = self.left".
replaceDropsLeft(n) ==
    IF Left(n) = None /\ Right(n) = None THEN None
    ELSE IF Left(n) = None THEN Right(n)
    ELSE IF Right(n) = None THEN Left(n)
    ELSE IF Left(Right(n)) = None THEN Right(n)
    ELSE LET f == fetchIOS(n)
         IN  <<Key(f.ios), Left(f.self), Right(f.self)>>

\* binarysearchtree.py:110-141  Node.replace: the new root of the subtree
\* formerly rooted at n, None if n was a leaf.
replace(n) ==
    IF Left(n) = None /\ Right(n) = None THEN None
    ELSE IF Left(n) = None THEN Right(n)
    ELSE IF Right(n) = None THEN Left(n)
    ELSE IF Left(Right(n)) = None THEN <<Key(Right(n)), Left(n), Right(Right(n))>>
    ELSE LET f == fetchIOS(n)
         IN  <<Key(f.ios), Left(f.self), Right(f.self)>>

\* binarysearchtree.py:87-108  Node.delete on a node that does not hold key
\* itself: what is returned, and self afterwards.
RECURSIVE NodeDelete(_, _)
NodeDelete(n, k) ==
    IF k < Key(n)
      THEN IF Left(n) = None THEN [found |-> FALSE, node |-> n]
           ELSE IF Key(Left(n)) = k
             THEN [found |-> TRUE, node |-> <<Key(n), replace(Left(n)), Right(n)>>]
             ELSE LET r == NodeDelete(Left(n), k)
                  IN  [found |-> r.found, node |-> <<Key(n), r.node, Right(n)>>]
      ELSE IF Right(n) = None THEN [found |-> FALSE, node |-> n]
           ELSE IF Key(Right(n)) = k
             THEN [found |-> TRUE, node |-> <<Key(n), Left(n), replace(Right(n))>>]
             ELSE LET r == NodeDelete(Right(n), k)
                  IN  [found |-> r.found, node |-> <<Key(n), Left(n), r.node>>]

\* binarysearchtree.py:26-41  BinarySearchTree.delete: what is returned, and
\* self.root afterwards.
TreeDelete(t, k) ==
    IF t = None THEN [found |-> FALSE, node |-> t]
    ELSE IF Key(t) = k THEN [found |-> TRUE, node |-> replace(t)]
    ELSE NodeDelete(t, k)

\* datastructures/binarysearchtree.py:13-42, mutated: a key that is already in
\* the tree is not added again.
RECURSIVE IterInsertOnce(_, _)
IterInsertOnce(t, k) ==
    IF t = None THEN Node(k)
    ELSE IF Key(t) = k THEN t
    ELSE IF k < Key(t) THEN <<Key(t), IterInsertOnce(Left(t), k), Right(t)>>
    ELSE <<Key(t), Left(t), IterInsertOnce(Right(t), k)>>

\* datastructures/binarysearchtree.py:13-42  insert: the loop walks current down
\* to the free link where key belongs and puts a new node there.
RECURSIVE IterInsert(_, _)
IterInsert(t, k) ==
    IF t = None THEN Node(k)
    ELSE IF k < Key(t) THEN <<Key(t), IterInsert(Left(t), k), Right(t)>>
    ELSE <<Key(t), Left(t), IterInsert(Right(t), k)>>

\* datastructures/binarysearchtree.py:45-58  search: the loop from current.
RECURSIVE IterSearch(_, _)
IterSearch(current, k) ==
    IF current = None THEN None
    ELSE IF Key(current) = k THEN <<Key(current)>>
    ELSE IF k < Key(current) THEN IterSearch(Left(current), k)
    ELSE IterSearch(Right(current), k)

\* datastructures/binarysearchtree.py:75-92  the loop of delete from current,
\* which does not hold key itself.
RECURSIVE IterDeleteFrom(_, _)
IterDeleteFrom(current, k) ==
    IF k < Key(current)
      THEN IF Left(current) = None THEN [found |-> FALSE, node |-> current]
           ELSE IF k = Key(Left(current))
             THEN [found |-> TRUE,
                   node |-> <<Key(current), replace(Left(current)), Right(current)>>]
             ELSE LET r == IterDeleteFrom(Left(current), k)
                  IN  [found |-> r.found, node |-> <<Key(current), r.node, Right(current)>>]
      ELSE IF Right(current) = None THEN [found |-> FALSE, node |-> current]
           ELSE IF k = Key(Right(current))
             THEN [found |-> TRUE,
                   node |-> <<Key(current), Left(current), replace(Right(current))>>]
             ELSE LET r == IterDeleteFrom(Right(current), k)
                  IN  [found |-> r.found, node |-> <<Key(current), Left(current), r.node>>]

\* datastructures/binarysearchtree.py:60-92  delete.
IterDelete(t, k) ==
    IF t = None THEN [found |-> FALSE, node |-> t]
    ELSE IF Key(t) = k THEN [found |-> TRUE, node |-> replace(t)]
    ELSE IterDeleteFrom(t, k)

\* ---- The iterative tree as objects: every Node is an entry of nodes, a
\* ---- reference is the position of the entry, 0 is None.
EmptyHeap == [root |-> 0, nodes |-> <<>>]

\* datastructures/binarysearchtree.py:96-99  Node.__init__.
heapNode(k) == [key |-> k, left |-> 0, right |-> 0]

\* "n.left = v" and "n.right = v" on the object n.
setLeft(h, n, v) == [h EXCEPT !.nodes[n].left = v]
setRight(h, n, v) == [h EXCEPT !.nodes[n].right = v]

\* BinarySearchTree.Node(key): a new object, referred to by Len(nodes) + 1.
alloc(h, k) == [h EXCEPT !.nodes = Append(@, heapNode(k))]

\* datastructures/binarysearchtree.py:22-42  the loop of insert from current.
RECURSIVE heapInsertFrom(_, _, _)
heapInsertFrom(h, current, k) ==
    LET n   == h.nodes[current]
        new == Len(h.nodes) + 1
    IN  IF k < n.key
          THEN IF n.left = 0 THEN setLeft(alloc(h, k), current, new)
               ELSE heapInsertFrom(h, n.left, k)
          ELSE IF n.right = 0 THEN setRight(alloc(h, k), current, new)
               ELSE heapInsertFrom(h, n.right, k)

\* datastructures/binarysearchtree.py:13-42  insert.
heapInsert(h, k) ==
    IF h.root = 0 THEN [alloc(h, k) EXCEPT !.root = Len(h.nodes) + 1]
    ELSE heapInsertFrom(h, h.root, k)

\* datastructures/binarysearchtree.py:149-153  the walk to the leftmost
\* descendant of the right child, with its parent.
RECURSIVE IOSWalk(_, _, _)
IOSWalk(h, prev, curr) ==
    IF h.nodes[curr].left # 0 THEN IOSWalk(h, curr, h.nodes[curr].left)
    ELSE [prev |-> prev, curr |-> curr]

\* datastructures/binarysearchtree.py:134-164, mutated: the successor is not
\* unlinked from its parent.
heapFetchIOSKeepsLink(h, self) ==
    LET w  == IOSWalk(h, self, h.nodes[self].right)
        h2 == setRight(h, w.curr, 0)
    IN  [heap |-> h2, ios |-> w.curr]

\* datastructures/binarysearchtree.py:134-164  fetchIOS: the successor is
\* unlinked ("prev.left = curr.right", "curr.right = None") and returned.
heapFetchIOS(h, self) ==
    LET w  == IOSWalk(h, self, h.nodes[self].right)
        h1 == setLeft(h, w.prev, h.nodes[w.curr].right)
        h2 == setRight(h1, w.curr, 0)
    IN  [heap |-> h2, ios |-> w.curr]

\* datastructures/binarysearchtree.py:101-132  replace: the reference the
\* caller stores in place of self.
heapReplace(h, self) ==
    LET n == h.nodes[self]
    IN  IF n.left = 0 /\ n.right = 0 THEN [heap |-> h, node |-> 0]
        ELSE IF n.left = 0 THEN [heap |-> h, node |-> n.right]
        ELSE IF n.right = 0 THEN [heap |-> h, node |-> n.left]
        ELSE IF h.nodes[n.right].left = 0
          THEN [heap |-> setLeft(h, n.right, n.left), node |-> n.right]
        ELSE LET f  == heapFetchIOS(h, self)
                 h1 == setLeft(f.heap, f.ios, f.heap.nodes[self].left)
                 h2 == setRight(h1, f.ios, h1.nodes[self].right)
             IN  [heap |-> h2, node |-> f.ios]

\* datastructures/binarysearchtree.py:75-92  the loop of delete from current.
RECURSIVE heapDeleteFrom(_, _, _)
heapDeleteFrom(h, current, k) ==
    LET n == h.nodes[current]
    IN  IF k < n.key
          THEN IF n.left = 0 THEN [found |-> FALSE, heap |-> h]
               ELSE IF k = h.nodes[n.left].key
                 THEN LET r == heapReplace(h, n.left)
                      IN  [found |-> TRUE, heap |-> setLeft(r.heap, current, r.node)]
               ELSE heapDeleteFrom(h, n.left, k)
          ELSE IF n.right = 0 THEN [found |-> FALSE, heap |-> h]
               ELSE IF k = h.nodes[n.right].key
                 THEN LET r == heapReplace(h, n.right)
                      IN  [found |-> TRUE, heap |-> setRight(r.heap, current, r.node)]
               ELSE heapDeleteFrom(h, n.right, k)

\* datastructures/binarysearchtree.py:60-92  delete.
heapDelete(h, k) ==
    IF h.root = 0 THEN [found |-> FALSE, heap |-> h]
    ELSE IF h.nodes[h.root].key = k
      THEN LET r == heapReplace(h, h.root)
           IN  [found |-> TRUE, heap |-> [r.heap EXCEPT !.root = r.node]]
    ELSE heapDeleteFrom(h, h.root, k)

\* The objects that can be reached from self.root in at most fuel steps more.
RECURSIVE ReachFrom(_, _, _)
ReachFrom(h, S, fuel) ==
    IF fuel = 0 THEN S
    ELSE LET children == {h.nodes[m].left : m \in S} \cup {h.nodes[m].right : m \in S}
         IN  ReachFrom(h, S \cup (children \ {0}), fuel - 1)

Reach(h) == ReachFrom(h, {h.root} \ {0}, Len(h.nodes))

\* The references to n held by the left and right fields of reachable objects.
InDegree(h, n) ==
    Cardinality({m \in Reach(h) : h.nodes[m].left = n})
      + Cardinality({m \in Reach(h) : h.nodes[m].right = n})

\* The objects reachable from self.root form a tree: nothing refers to the
\* root, and exactly one field refers to every other object, so that no object
\* is reached by two paths and no path comes back to an object.
IsTree(h) ==
    /\ h.root # 0 => InDegree(h, h.root) = 0
    /\ \A n \in Reach(h) \ {h.root} : InDegree(h, n) = 1

\* The tree under the object n, as a value.
RECURSIVE TreeOf(_, _)
TreeOf(h, n) ==
    IF n = 0 THEN None
    ELSE <<h.nodes[n].key, TreeOf(h, h.nodes[n].left), TreeOf(h, h.nodes[n].right)>>

\* The objects of the tree t, numbered from base + 1 on, root first, then the
\* left subtree, then the right subtree.
RECURSIVE ObjectsOf(_, _)
ObjectsOf(t, base) ==
    IF t = None THEN <<>>
    ELSE LET l == ObjectsOf(Left(t), base + 1)
             r == ObjectsOf(Right(t), base + 1 + Len(l))
         IN  <<[key   |-> Key(t),
                left  |-> IF Left(t) = None THEN 0 ELSE base + 2,
                right |-> IF Right(t) = None THEN 0 ELSE base + 2 + Len(l)]>> \o l \o r

\* Objects that nothing refers to are reclaimed, and a reference has no value
\* of its own: a heap that is a tree is kept with its objects numbered in
\* this fixed order.
Collected(h) ==
    IF IsTree(h)
      THEN LET t == TreeOf(h, h.root)
           IN  [root |-> IF t = None THEN 0 ELSE 1, nodes |-> ObjectsOf(t, 0)]
      ELSE h

\* The number of nodes of a tree.
RECURSIVE Size(_)
Size(t) == IF t = None THEN 0 ELSE 1 + Size(Left(t)) + Size(Right(t))

\* The node that delete(k) replaces: the first one holding k on the way down
\* from the root, None if the way ends without one.
RECURSIVE Target(_, _)
Target(t, k) ==
    IF t = None THEN None
    ELSE IF Key(t) = k THEN t
    ELSE IF k < Key(t) THEN Target(Left(t), k)
    ELSE Target(Right(t), k)

\* The structural case of a node that is replaced.
CaseOf(n) ==
    IF n = None THEN "absent"
    ELSE IF Left(n) = None /\ Right(n) = None THEN "leaf"
    ELSE IF Left(n) = None THEN "right only"
    ELSE IF Right(n) = None THEN "left only"
    ELSE IF Left(Right(n)) = None THEN "right child without left"
    ELSE "deeper successor"

\* The three methods as the running implementation has them.
insert(t, k) == IF impl = "recursive" THEN TreeInsert(t, k) ELSE IterInsert(t, k)
search(t, k) == IF impl = "recursive" THEN TreeSearch(t, k) ELSE IterSearch(t, k)
delete(t, k) == IF impl = "recursive" THEN TreeDelete(t, k) ELSE IterDelete(t, k)

\* bst.insert(k).  The tree is kept to MaxNodes nodes.
BSTInsert ==
    /\ pc = "bst"
    /\ Size(tree) < MaxNodes
    /\ \E k \in 1..MaxKey :
          /\ tree' = insert(tree, k)
          /\ heap' = IF impl = "iterative" THEN Collected(heapInsert(heap, k)) ELSE heap
          /\ bag' = [bag EXCEPT ![k] = @ + 1]
          /\ distinct' = (distinct /\ bag[k] = 0)
          /\ bst_result' = [call |-> "insert", key |-> k, found |-> None,
                            deleted |-> FALSE, case |-> "none", at_root |-> FALSE]
    /\ UNCHANGED <<pc, err, err_index, cfgVars, bpVars, sidVars, mixVars, psVars,
                   impl, gsVars>>

\* bst.search(k): the tree is only read.
BSTSearch ==
    /\ pc = "bst"
    /\ \E k \in 1..MaxKey :
          bst_result' = [call |-> "search", key |-> k, found |-> search(tree, k),
                         deleted |-> FALSE, case |-> "none", at_root |-> FALSE]
    /\ UNCHANGED <<pc, err, err_index, cfgVars, bpVars, sidVars, mixVars, psVars,
                   impl, tree, bag, distinct, heap, gsVars>>

\* bst.delete(k).
BSTDelete ==
    /\ pc = "bst"
    /\ \E k \in 1..MaxKey :
          LET r == delete(tree, k)
          IN  /\ tree' = r.node
              /\ heap' = IF impl = "iterative" THEN Collected(heapDelete(heap, k).heap)
                         ELSE heap
              /\ bag' = IF r.found THEN [bag EXCEPT ![k] = @ - 1] ELSE bag
              /\ bst_result' = [call |-> "delete", key |-> k, found |-> None,
                                deleted |-> r.found, case |-> CaseOf(Target(tree, k)),
                                at_root |-> (tree # None /\ Key(tree) = k)]
    /\ UNCHANGED <<pc, err, err_index, cfgVars, bpVars, sidVars, mixVars, psVars,
                   impl, distinct, gsVars>>

(***************************************************************************)
(* generateRandomSIDSampleSet and graphSID (src/benchmark.py), SIDGraphSet *)
(* (src/sidgraphset.py) and the PgfPlot methods it calls (src/pgfplot.py). *)
(* A filename is the pair <<graph, data set>>; a written document is       *)
(* represented by its filename and the series it holds.                    *)
(***************************************************************************)
\* benchmark.py:42  "DATA_SETS_TO_PRODUCE = 3".
DATA_SETS_TO_PRODUCE == 3

\* benchmark.py:94  final_stop_index.
FinalStopIndex(e, bs, bl, bi) == (((e - bs) \div bi) + 1) * bl

\* benchmark.py:95-104  the loop that builds search_samples: bl samples are
\* added while search_start_index < final_stop_index.
RECURSIVE SearchSamplesLen(_, _, _)
SearchSamplesLen(search_start_index, final, bl) ==
    IF search_start_index < final
      THEN bl + SearchSamplesLen(search_start_index + bl, final, bl)
      ELSE 0

\* benchmark.py:93-104  batch k of search_samples is
\* random.sample(insert_samples[0:insert_index], bm_length) with insert_index =
\* bm_start + k*bm_interval: the values come from the indexes below BatchSource,
\* the slice ending at len(insert_samples) = stop at the latest.
BatchSource(k, e, bs, bi) == Min(bs + k * bi, e)

\* benchmark.py:64-110  generateRandomSIDSampleSet(stop, bm_start, bm_length,
\* bm_interval): the lengths of the three lists returned.  insert_samples is
\* generateRandomSamples(stop), delete_samples a shuffle of it.
generateRandomSIDSampleSet(e, bs, bl, bi) ==
    [search |-> SearchSamplesLen(0, FinalStopIndex(e, bs, bl, bi), bl),
     insert |-> e,
     delete |-> e]

\* pgfplot.py:75-78, mutated: the plot takes the place of the ones added before.
addPlotReplaces(plots, s) == <<s>>

\* pgfplot.py:75-78  PgfPlot.addPlot.
addPlot(plots, s) == Append(plots, s)

\* pgfplot.py:121-139  PgfPlot.run on a graph whose functions list is []: the
\* loop body is never entered, self.plots stays as it is, nothing is written.
run(plots) == plots \o <<>>

\* pgfplot.py:81-118  PgfPlot.write: the document with the series of
\* self.plots is written to self.filename.
write(files, filename, plots) ==
    {f \in files : f.filename # filename} \cup {[filename |-> filename, plots |-> plots]}

\* The elements a structure holds after a run that found it with n elements:
\* every insert sample adds one element and every delete sample, a value
\* inserted before, removes one.
HeldAfter(n) == n + Len(insert_log) - Len(delete_log)

\* sidgraphset.py:56-108  the three PgfPlots are set up with no plots, and
\* benchmarks = [].
GSConstruct ==
    /\ pc = "gs_new"
    /\ graphs' = Append(graphs, [search |-> <<>>, insert |-> <<>>, delete |-> <<>>])
    /\ benchmarks' = <<>>
    /\ pc' = "gs_for"
    /\ UNCHANGED <<err, err_index, cfgVars, bpVars, sidVars, mixVars, psVars, bstVars,
                   structures, data_set, written, held>>

\* sidgraphset.py:109-123  the loop over the data structures: SIDBenchmark is
\* called on structure i, or the loop is left.
GSNextBenchmark ==
    /\ pc = "gs_for"
    /\ IF Len(benchmarks) < structures
         THEN /\ pc' = "sid_new"
              /\ last_benchmark' = <<>>
              /\ data_structure_size' = 0
              /\ search_log' = <<>> /\ insert_log' = <<>> /\ delete_log' = <<>>
         ELSE /\ pc' = "gs_add"
              /\ UNCHANGED <<last_benchmark, data_structure_size,
                             search_log, insert_log, delete_log>>
    /\ UNCHANGED <<err, err_index, cfgVars, bpVars, mixVars, psVars, bstVars, gsVars,
                   search_index, insert_index, delete_index, next_benchmark,
                   search_plot, insert_plot, delete_plot>>

\* sidgraphset.py:110-123  SIDBenchmark(...) has returned: benchmarks.append.
GSBenchmarkDone ==
    /\ pc = "sid_done"
    /\ data_set > 0
    /\ benchmarks' = Append(benchmarks, [search_plot |-> search_plot,
                                         insert_plot |-> insert_plot,
                                         delete_plot |-> delete_plot])
    /\ held' = [held EXCEPT ![Len(benchmarks) + 1] = HeldAfter(@)]
    /\ pc' = "gs_for"
    /\ UNCHANGED <<err, err_index, cfgVars, bpVars, sidVars, mixVars, psVars, bstVars,
                   structures, data_set, graphs, written>>

\* sidgraphset.py:126-129  the loop that adds the three plots of benchmarks[i]
\* to the three graphs, one iteration per step; after the last one the loop is
\* left.  A plot in a graph is the series and the structure it was measured on.
GSAddPlots ==
    /\ pc = "gs_add"
    /\ LET g == graphs[Len(graphs)]
           i == Len(g.search) + 1
       IN  IF i <= Len(benchmarks)
             THEN /\ graphs' = [graphs EXCEPT ![Len(graphs)] =
                        [search |-> addPlot(g.search,
                            [of |-> i, coordinates |-> benchmarks[i].search_plot]),
                         insert |-> addPlot(g.insert,
                            [of |-> i, coordinates |-> benchmarks[i].insert_plot]),
                         delete |-> addPlot(g.delete,
                            [of |-> i, coordinates |-> benchmarks[i].delete_plot])]]
                  /\ pc' = pc
             ELSE /\ graphs' = graphs
                  /\ pc' = "gs_run"
    /\ UNCHANGED <<err, err_index, cfgVars, bpVars, sidVars, mixVars, psVars, bstVars,
                   structures, data_set, benchmarks, written, held>>

\* sidgraphset.py:132-134  search_graph.run(), insert_graph.run(),
\* delete_graph.run(); the constructor returns.
GSRun ==
    /\ pc = "gs_run"
    /\ graphs' = [graphs EXCEPT ![Len(graphs)] =
          [search |-> run(@.search), insert |-> run(@.insert), delete |-> run(@.delete)]]
    /\ pc' = "gs_done"
    /\ UNCHANGED <<err, err_index, cfgVars, bpVars, sidVars, mixVars, psVars, bstVars,
                   structures, data_set, benchmarks, written, held>>

\* benchmark.py:206-226  graphSID's loop: the next SIDGraphSet is built on the
\* same functions and samples, or graphSID returns.
GSNextDataSet ==
    /\ pc = "gs_done"
    /\ IF data_set < DATA_SETS_TO_PRODUCE
         THEN data_set' = data_set + 1 /\ pc' = "gs_new"
         ELSE data_set' = data_set /\ pc' = "graphsid_done"
    /\ UNCHANGED <<err, err_index, cfgVars, bpVars, sidVars, mixVars, psVars, bstVars,
                   structures, benchmarks, graphs, written, held>>

(***************************************************************************)
(* Initial states.                                                         *)
(***************************************************************************)
IdleBP ==
    /\ start = 0 /\ stop = 0 /\ benchmark_start = 0
    /\ benchmark_length = 1 /\ benchmark_interval = 1 /\ repeat = 1
    /\ combine_method = "any"

IdleSIDCfg ==
    /\ bm_start = 0 /\ bm_length = 1 /\ bm_interval = 1
    /\ len_search = 0 /\ len_insert = 0 /\ len_delete = 0

\* No call has been made on the tree yet.
NoCall == [call |-> "none", key |-> 0, found |-> None, deleted |-> FALSE,
           case |-> "none", at_root |-> FALSE]

IdleBST ==
    /\ impl = "none" /\ tree = None /\ bag = [k \in 1..MaxKey |-> 0]
    /\ distinct = TRUE /\ bst_result = NoCall
    /\ heap = EmptyHeap

IdleGS ==
    /\ structures = 0 /\ data_set = 0
    /\ benchmarks = <<>> /\ graphs = <<>> /\ written = {} /\ held = <<>>

IdleEngines ==
    /\ err = "none" /\ err_index = -1
    /\ p = 0 /\ coordinates = <<>> /\ runs = <<>> /\ self_coordinates = <<>>
    /\ calls = <<>>
    /\ search_index = 0 /\ insert_index = 0 /\ delete_index = 0
    /\ next_benchmark = 0 /\ last_benchmark = <<>> /\ data_structure_size = 0
    /\ search_plot = <<>> /\ insert_plot = <<>> /\ delete_plot = <<>>
    /\ search_log = <<>> /\ insert_log = <<>> /\ delete_log = <<>>
    /\ op_log = <<>>
    /\ size = 0 /\ current_benchmark = 0 /\ plot = <<>> /\ sim_plot = <<>>

IdleState == IdleEngines /\ IdleBST /\ IdleGS

\* A BenchmarkPlot about to be constructed, for every configuration in the bounds.
InitBP ==
    /\ pc = "bp_new"
    /\ start \in 0..MaxStop
    /\ stop \in 0..MaxStop
    /\ benchmark_start \in 0..(MaxStop + 1)
    /\ benchmark_length \in 1..MaxLength
    /\ benchmark_interval \in 0..MaxInterval
    /\ repeat \in -1..MaxRepeat
    /\ combine_method = "any"
    /\ IdleSIDCfg
    /\ operations = <<>>
    /\ IdleState

NextBP == BPConstruct \/ BPNextPass \/ DBCheck \/ DBRampUp \/ DBWindow \/ DBUntimed \/ DBReturn
            \/ BPCombine

SpecBP == InitBP /\ [][NextBP]_vars

\* The constructor runs to its end without being suspended: a step that is
\* possible is eventually taken.
SpecBPFair == SpecBP /\ WF_vars(NextBP)

\* The measurements handed to the combiner directly.
TimeValues == {1, MaxTime}

\* The series of n points a pass returns under the idle configuration
\* (benchmark_start = 0, benchmark_interval = 1), with every choice of y.
SeriesOf(n) ==
    {[j \in 1..n |-> [x |-> benchmark_start + (j - 1) * benchmark_interval, y |-> ys[j]]] :
        ys \in [1..n -> TimeValues]}

\* BenchmarkPlot.__init__ after its last pass: repeat series of equal length
\* are about to be combined with median, mean or a symbolic reducer.
InitCombine ==
    /\ pc = "bp_for"
    /\ start = 0 /\ stop = 0 /\ benchmark_start = 0
    /\ benchmark_length = 1 /\ benchmark_interval = 1
    /\ repeat \in 1..MaxRepeat
    /\ combine_method \in {"median", "mean", "any"}
    /\ IdleSIDCfg
    /\ operations = <<>>
    /\ err = "none" /\ err_index = -1
    /\ p = 0 /\ coordinates = <<>> /\ self_coordinates = <<>> /\ calls = <<>>
    /\ \E n \in 0..MaxRepeat : runs \in [1..repeat -> SeriesOf(n)]
    /\ search_index = 0 /\ insert_index = 0 /\ delete_index = 0
    /\ next_benchmark = 0 /\ last_benchmark = <<>> /\ data_structure_size = 0
    /\ search_plot = <<>> /\ insert_plot = <<>> /\ delete_plot = <<>>
    /\ search_log = <<>> /\ insert_log = <<>> /\ delete_log = <<>>
    /\ op_log = <<>>
    /\ size = 0 /\ current_benchmark = 0 /\ plot = <<>> /\ sim_plot = <<>>
    /\ IdleBST /\ IdleGS

NextCombine == BPCombine

SpecCombine == InitCombine /\ [][NextCombine]_vars

\* The lengths tried for insert_samples and delete_samples: one short of stop,
\* exactly stop, and stop plus a full window.
SampleLengths(e) == {n \in {e - 1, e, e + MaxLength} : n >= 0}

\* A SIDBenchmark about to be constructed, for every configuration in the bounds.
InitSID ==
    /\ pc = "sid_new"
    /\ stop \in 0..MaxSIDStop
    /\ bm_start \in 0..MaxSIDStop
    /\ bm_length \in 1..MaxLength
    /\ bm_interval \in 1..MaxInterval
    /\ len_search \in 0..MaxSearch
    /\ len_insert \in SampleLengths(stop)
    /\ len_delete \in SampleLengths(stop)
    /\ start = 0 /\ benchmark_start = 0
    /\ benchmark_length = 1 /\ benchmark_interval = 1 /\ repeat = 1
    /\ combine_method = "any"
    /\ operations = <<>>
    /\ IdleState

NextSID == SIDConstruct \/ SIDRampUp \/ SIDGrowSearch \/ SIDGrowInsert \/ SIDGrowUntimed
             \/ SIDGrowExit \/ SIDShrinkSetup \/ SIDShrinkUntimed \/ SIDShrinkTimed
             \/ SIDShrinkExit

SpecSID == InitSID /\ [][NextSID]_vars

\* Sample lists long enough for every run within the bounds, whatever the
\* interval: no read ever reaches their end.
AmpleLength == (MaxSIDStop + MaxLength) * (MaxInterval + 2)

\* SIDBenchmark with any integer bm_interval, zero and negative included, on
\* sample lists of the documented minimum length, shorter, longer and ample.
InitSIDAny ==
    /\ pc = "sid_new"
    /\ stop \in 0..MaxSIDStop
    /\ bm_start \in 0..MaxSIDStop
    /\ bm_length \in 1..MaxLength
    /\ bm_interval \in (-MaxInterval)..MaxInterval
    /\ len_search \in {MaxSearch, AmpleLength}
    /\ len_insert \in SampleLengths(stop) \cup {AmpleLength}
    /\ len_delete \in SampleLengths(stop) \cup {AmpleLength}
    /\ start = 0 /\ benchmark_start = 0
    /\ benchmark_length = 1 /\ benchmark_interval = 1 /\ repeat = 1
    /\ combine_method = "any"
    /\ operations = <<>>
    /\ IdleState

SpecSIDAny == InitSIDAny /\ [][NextSID]_vars

\* _doBenchmark is one sequential call: it keeps running until it returns or
\* raises.
SpecSIDAnyFair == SpecSIDAny /\ WF_vars(NextSID)

\* Every list of at most n tags.
TagLists(n) == UNION {[1..k -> {SEARCH, INSERT, DELETE, UnknownTag}] : k \in 0..n}

\* n copies of the tag t.
Times(t, n) == [j \in 1..n |-> t]

\* benchmark.py:687-743  the operations of testMixedSIDPlotSizes (bm_start = 4,
\* bm_length = 4, bm_interval = 8).
TestOps ==
    Times(INSERT, 4) \o Times(SEARCH, 4) \o Times(SEARCH, 4) \o Times(INSERT, 4)
      \o Times(SEARCH, 4) \o Times(DELETE, 4) \o Times(SEARCH, 4)
      \o <<INSERT, DELETE, INSERT, DELETE>>

\* The scenario [INSERT]*4 + [SEARCH]*4 + [INSERT]*4 + [DELETE]*4.
ScenarioOps ==
    Times(INSERT, 4) \o Times(SEARCH, 4) \o Times(INSERT, 4) \o Times(DELETE, 4)

\* A mixed replay or a plotSizes call about to start: every tag list and
\* configuration in the bounds, and the two scenarios with bm_start = 4,
\* bm_length = 4, bm_interval = 8.
InitMixed ==
    /\ pc \in {"mx_new", "ps_new"}
    /\ \/ /\ operations \in TagLists(MaxOps)
          /\ bm_start \in 0..(MaxOps + 1)
          /\ bm_length \in 1..MaxLength
          /\ bm_interval \in 1..MaxInterval
       \/ /\ operations \in {TestOps, ScenarioOps}
          /\ bm_start = Len(Times(INSERT, 4))
          /\ bm_length = bm_start
          /\ bm_interval = bm_start + bm_length
    /\ len_search = 0 /\ len_insert = 0 /\ len_delete = 0
    /\ IdleBP
    /\ IdleState

NextMixed == MixRampUp \/ MixWindow \/ MixReturn \/ PSCall \/ PSRampUp \/ PSWindow
               \/ PSReturn

SpecMixed == InitMixed /\ [][NextMixed]_vars

\* Any one of the engines, about to run on any configuration in the bounds.
InitAll == InitBP \/ InitCombine \/ InitSID \/ InitMixed

NextAll == NextBP \/ NextSID \/ NextMixed

SpecAll == InitAll /\ [][NextAll]_vars

\* A new, empty BinarySearchTree of the recursive implementation, on which any
\* sequence of insert, search and delete calls is made.
InitBST ==
    /\ pc = "bst"
    /\ impl = "recursive"
    /\ tree = None
    /\ bag = [k \in 1..MaxKey |-> 0]
    /\ distinct = TRUE
    /\ bst_result = NoCall
    /\ heap = EmptyHeap
    /\ IdleBP /\ IdleSIDCfg /\ operations = <<>>
    /\ IdleEngines
    /\ IdleGS

NextBST == BSTInsert \/ BSTSearch \/ BSTDelete

SpecBST == InitBST /\ [][NextBST]_vars

\* The same on the iterative implementation.
InitBSTIter ==
    /\ pc = "bst"
    /\ impl = "iterative"
    /\ tree = None
    /\ bag = [k \in 1..MaxKey |-> 0]
    /\ distinct = TRUE
    /\ bst_result = NoCall
    /\ heap = EmptyHeap
    /\ IdleBP /\ IdleSIDCfg /\ operations = <<>>
    /\ IdleEngines
    /\ IdleGS

SpecBSTIter == InitBSTIter /\ [][NextBST]_vars

\* The configurations generateRandomSIDSampleSet is used with:
\* bm_length <= bm_start < stop and bm_interval >= 1, and the three sample
\* lists as it returns them.
GeneratedCfg ==
    /\ stop \in 1..MaxSIDStop
    /\ bm_start \in 1..MaxSIDStop
    /\ bm_length \in 1..MaxLength
    /\ bm_interval \in 1..MaxInterval
    /\ bm_length <= bm_start /\ bm_start < stop
    /\ len_search = generateRandomSIDSampleSet(stop, bm_start, bm_length, bm_interval).search
    /\ len_insert = generateRandomSIDSampleSet(stop, bm_start, bm_length, bm_interval).insert
    /\ len_delete = generateRandomSIDSampleSet(stop, bm_start, bm_length, bm_interval).delete
    /\ start = 0 /\ benchmark_start = 0
    /\ benchmark_length = 1 /\ benchmark_interval = 1 /\ repeat = 1
    /\ combine_method = "any"
    /\ operations = <<>>

\* A SIDBenchmark about to be constructed on generated samples.
InitGenerated ==
    /\ pc = "sid_new"
    /\ GeneratedCfg
    /\ IdleState

SpecGenerated == InitGenerated /\ [][NextSID]_vars

\* graphSID about to build its first SIDGraphSet, on generated samples and on
\* structures that are empty.
InitGraphSID ==
    /\ pc = "gs_new"
    /\ GeneratedCfg
    /\ IdleEngines
    /\ IdleBST
    /\ structures \in 1..MaxStructures
    /\ data_set = 1
    /\ benchmarks = <<>> /\ graphs = <<>> /\ written = {}
    /\ held = [i \in 1..structures |-> 0]

NextGraphSID == GSConstruct \/ GSNextBenchmark \/ GSBenchmarkDone \/ GSAddPlots \/ GSRun
                  \/ GSNextDataSet \/ NextSID

SpecGraphSID == InitGraphSID /\ [][NextGraphSID]_vars

\* Any engine, or graphSID, about to run on any configuration in the bounds.
InitRuns == InitAll \/ InitGraphSID

NextRuns == NextAll \/ NextGraphSID

SpecRuns == InitRuns /\ [][NextRuns]_vars


(***************************************************************************)
(* Properties of the windowed engine (checked under SpecBP).               *)
(***************************************************************************)
\* How often function was applied to samples[i] during pass k.
CallCount(k, i) ==
    Cardinality({j \in 1..Len(calls) : calls[j].pass = k /\ calls[j].i = i})

\* The passes that have returned are 1 .. Len(runs); each of them passed the
\* bounds check.

\* C1: in a finished pass with 1 <= window_length <= window_interval, function
\* has been applied exactly once to samples[i] for every i in [start, stop),
\* timed and untimed applications counted together.
C1_EveryIndexOnce ==
    (1 <= benchmark_length /\ benchmark_length <= benchmark_interval) =>
        \A k \in 1..Len(runs) : \A i \in start..(stop - 1) : CallCount(k, i) = 1

\* A finished pass with a ramp-up, two windows, untimed stretches and start > 0.
C1_Witness ==
    /\ pc = "bp_done"
    /\ start > 0 /\ start < benchmark_start
    /\ benchmark_length < benchmark_interval
    /\ benchmark_start + benchmark_interval < stop
    /\ Len(runs) >= 1

\* The k of the claimed points: x = window_start + k * window_interval < stop.
PointIndexes == {k \in 0..stop : benchmark_start + k * benchmark_interval < stop}

\* C2: the series a pass returns holds exactly one point for each
\* x = window_start + k*window_interval, k >= 0, x < stop, in increasing order
\* of k, and nothing else; the point at x times the indices
\* [x, min(x + window_length, stop)), and nothing else is timed.
C2_PointsOnSchedule ==
    (benchmark_length >= 1 /\ benchmark_interval >= 1) =>
    \A r \in 1..Len(runs) :
        /\ Len(runs[r]) = Cardinality(PointIndexes)
        /\ \A n \in 1..Len(runs[r]) :
              LET x == benchmark_start + (n - 1) * benchmark_interval
              IN  /\ runs[r][n].x = x
                  /\ runs[r][n].y.lo = x
                  /\ runs[r][n].y.hi = Min(x + benchmark_length, stop)
                  /\ \A i \in x..(Min(x + benchmark_length, stop) - 1) :
                        \E j \in 1..Len(calls) :
                            calls[j].pass = r /\ calls[j].i = i /\ calls[j].timed
        /\ \A j \in 1..Len(calls) :
              (calls[j].pass = r /\ calls[j].timed) =>
                  \E k \in PointIndexes :
                      /\ benchmark_start + k * benchmark_interval <= calls[j].i
                      /\ calls[j].i < Min(benchmark_start + k * benchmark_interval
                                            + benchmark_length, stop)

\* A returned series of at least two points whose last window is cut by stop.
C2_Witness ==
    /\ pc = "bp_done"
    /\ Len(self_coordinates) >= 2
    /\ self_coordinates[Len(self_coordinates)].x + benchmark_length > stop
    /\ benchmark_start > start

\* C6: with window_start < start or window_start > stop a pass raises the
\* configuration error before function is applied to any sample and before any
\* point is recorded.
C6_BoundsErrorFirst ==
    (benchmark_start < start \/ benchmark_start > stop) =>
        /\ calls = <<>> /\ coordinates = <<>> /\ runs = <<>> /\ self_coordinates = <<>>
        /\ pc \in {"bp_new", "bp_for", "bp_check", "bp_error"}
        /\ (pc = "bp_error" /\ repeat >= 1) => err = "ValueError: benchmark_start"

\* A pass that was refused because window_start > stop.
C6_Witness ==
    /\ pc = "bp_error" /\ err = "ValueError: benchmark_start"
    /\ benchmark_start > stop /\ benchmark_start >= start /\ stop > 0

\* C7: constructing a BenchmarkPlot with repeat < 1 (0 as well as every negative
\* value) ends in ValueError "repeat must be a positive integer", function not
\* having been applied to any sample.
C7_RepeatBelowOneRejected ==
    (repeat < 1 /\ pc \in {"bp_error", "bp_done"}) =>
        /\ pc = "bp_error" /\ err = "ValueError: repeat"
        /\ calls = <<>>

\* The untimed applications of pass k made before its first timed one, in order.
RampUpCalls(k) ==
    LET mine(c) == c.pass = k
        own     == SelectSeq(calls, mine)
        timedAt == {j \in 1..Len(own) : own[j].timed}
        n       == IF timedAt = {} THEN Len(own)
                   ELSE (CHOOSE j \in timedAt : \A h \in timedAt : j <= h) - 1
    IN  [j \in 1..n |-> own[j].i]

\* C11: the ramp-up of a pass applies function untimed to exactly the indices
\* [start, window_start), in increasing order (stated for the passes that reach
\* a first window, window_start < stop); no index below start is ever passed
\* to function.
C11_RampUpFromStart ==
    /\ \A j \in 1..Len(calls) : calls[j].i >= start
    /\ \A k \in 1..Len(runs) :
          benchmark_start < stop => RampUpCalls(k) = RangeSeq(start, benchmark_start)

\* C12: no index i >= stop is ever passed to function, timed or untimed, in any
\* pass, whether or not the last window would extend past stop and also when
\* window_start = stop.
C12_NeverAtOrPastStop ==
    \A j \in 1..Len(calls) : calls[j].i < stop

\* A finished pass whose only window would extend past stop.
C12_Witness ==
    /\ pc = "bp_done" /\ repeat = 1
    /\ Len(self_coordinates) = 1
    /\ benchmark_start + benchmark_length > stop
    /\ \E j \in 1..Len(calls) : calls[j].timed /\ calls[j].i = stop - 1

\* A finished pass with window_start = stop: the ramp-up reaches stop - 1 and
\* no window runs.
C12_StartAtStop ==
    /\ pc = "bp_done" /\ benchmark_start = stop /\ stop > 0
    /\ self_coordinates = <<>> /\ Len(calls) = stop

\* The window of the point pt would extend past stop.
Truncated(pt) == pt.x + benchmark_length > stop

PassStarted == pc = "bp_ramp"

\* The pass has returned to __init__ with its loop position at or past stop.
PassReturned == pc \in {"bp_for", "bp_done"} /\ p >= stop

\* C13: every pass whose configuration passes the bounds check terminates with
\* loop position p >= stop, for every window_length >= 1 and every
\* window_interval >= 0.
C13_PassTerminates ==
    (PassStarted /\ benchmark_length >= 1 /\ benchmark_interval >= 0) ~> PassReturned

\* With window_interval >= 1 every pass that has started does return.
C13_TerminatesWithPositiveInterval ==
    (PassStarted /\ benchmark_length >= 1 /\ benchmark_interval >= 1) ~> PassReturned

\* The loop's variant: an iteration ends with p past the start of its window.
LoopAdvances ==
    (pc = "bp_untimed" /\ pc' = "bp_loop" /\ benchmark_interval >= 1) =>
        p' > coordinates[Len(coordinates)].x
C13_LoopAdvances == [][LoopAdvances]_vars

\* A pass fills its logs only when window_interval = 0, and then it has timed
\* the same window, from the same p, every time.
C13_FullOnlyWhenStalled ==
    Saturated =>
        /\ benchmark_interval = 0
        /\ \A n \in 1..Len(coordinates) : coordinates[n].x = benchmark_start
        /\ pc = "bp_loop" => p = benchmark_start

(***************************************************************************)
(* Properties of the multi-pass combiner.                                  *)
(***************************************************************************)
\* Every pass yielded the same series.
IdenticalPasses == \A i \in 1..Len(runs) : runs[i] = runs[1]

\* C15 (checked under SpecCombine): if each of the repeat passes yields the
\* same series S, the combined series equals S point for point, same x and
\* same y, when combine_method is median or mean, for every repeat >= 1.  The
\* combined y is the fraction num/den, equal to S's y when num = y * den.
C15_IdenticalPassesReproduced ==
    (pc = "bp_done" /\ repeat >= 1 /\ IdenticalPasses
       /\ combine_method \in {"median", "mean"}) =>
        /\ Len(self_coordinates) = Len(runs[1])
        /\ \A j \in 1..Len(runs[1]) :
              /\ self_coordinates[j].x = runs[1][j].x
              /\ IF repeat = 1
                   THEN self_coordinates[j].y = runs[1][j].y
                   ELSE /\ self_coordinates[j].y.den > 0
                        /\ self_coordinates[j].y.num
                             = runs[1][j].y * self_coordinates[j].y.den

\* Two identical passes of two points with different y were combined by mean.
C15_Witness ==
    /\ pc = "bp_done" /\ repeat >= 2 /\ IdenticalPasses
    /\ combine_method = "mean"
    /\ Len(self_coordinates) >= 2
    /\ runs[1][1].y # runs[1][2].y

\* Two identical passes were combined by median.
C15_MedianCase ==
    /\ pc = "bp_done" /\ repeat >= 2 /\ IdenticalPasses
    /\ combine_method = "median" /\ Len(self_coordinates) >= 1

\* C16 (checked under SpecBP): for repeat >= 2 all passes produce series of the
\* same length with identical x positions, and the combined series has at each
\* position j the x of that position and y = combine_method applied to exactly
\* repeat values: the j-th measurement of pass 1, of pass 2, ..., of the last
\* pass, in that order, each pass's own measurement of that window.
C16_CombinedByPosition ==
    repeat >= 2 =>
        /\ \A r \in 1..Len(runs) :
              /\ Len(runs[r]) = Len(runs[1])
              /\ \A j \in 1..Len(runs[r]) :
                    /\ runs[r][j].x = runs[1][j].x
                    /\ runs[r][j].y.pass = r
                    /\ runs[r][j].y.lo = runs[r][j].x
        /\ pc = "bp_done" =>
              /\ Len(runs) = repeat
              /\ Len(self_coordinates) = Len(runs[1])
              /\ \A j \in 1..Len(self_coordinates) :
                    /\ self_coordinates[j].x = runs[1][j].x
                    /\ self_coordinates[j].y
                         = [combine_method |-> [i \in 1..repeat |-> runs[i][j].y]]

\* Two or more passes of two or more points each have been combined.
C16_Witness ==
    /\ pc = "bp_done" /\ repeat >= 2 /\ Len(runs) = repeat
    /\ Len(self_coordinates) >= 2
    /\ Len(self_coordinates[2].y.combine_method) = repeat

\* The value of a counter that function increments on every application: what
\* function closes over is never reset by the engine.
Counter == Len(calls)

\* C17 (checked under SpecBP): the combiner performs no reset between passes;
\* with a counting function, start = 0 and window_length <= window_interval the
\* counter equals repeat * stop when BenchmarkPlot returns.
C17_CounterIsRepeatTimesStop ==
    (pc = "bp_done" /\ start = 0
       /\ 1 <= benchmark_length /\ benchmark_length <= benchmark_interval) =>
        /\ Counter = repeat * stop
        /\ \A k \in 1..repeat :
              Cardinality({j \in 1..Len(calls) : calls[j].pass = k}) = stop

\* A BenchmarkPlot with two or more passes, each with a ramp-up and windows,
\* has returned.
C17_Witness ==
    /\ pc = "bp_done" /\ start = 0 /\ repeat >= 2
    /\ benchmark_length <= benchmark_interval
    /\ benchmark_start > 0 /\ benchmark_start < stop
    /\ Counter = repeat * stop

(***************************************************************************)
(* Properties of SIDBenchmark (checked under SpecSID).                     *)
(***************************************************************************)
\* ceil(a / b) for b > 0.
CeilDiv(a, b) == -((-a) \div b)

\* The stated minimum of len(search_samples):
\* ceil((stop - bm_start) / bm_interval + 1) * bm_length.
SearchNeeded == (CeilDiv(stop - bm_start, bm_interval) + 1) * bm_length

\* The stated preconditions on the sample lists.
SamplesSuffice ==
    len_insert >= stop /\ len_delete >= stop /\ len_search >= SearchNeeded

\* The grow loop has been left (its test failed).
GrowPhaseOver == pc \in {"sid_step3", "sid_shrink", "sid_shrink_b", "sid_done"}

NothingApplied == search_log = <<>> /\ insert_log = <<>> /\ delete_log = <<>>
NothingPlotted == search_plot = <<>> /\ insert_plot = <<>> /\ delete_plot = <<>>

\* C3: for every configuration that meets the stated preconditions (here with
\* bm_start < stop, so that the grow loop runs), insert_index = stop when the
\* grow phase ends, whatever (stop - bm_start) modulo bm_interval is.
C3_GrowEndsAtStop ==
    (bm_start >= bm_length /\ bm_start < stop /\ SamplesSuffice /\ GrowPhaseOver)
        => insert_index = stop

\* C4: with bm_start >= bm_length >= 1, bm_start < stop and any bm_interval >= 1
\* the bookkept data_structure_size equals bm_start when the shrink phase ends
\* (stated here for the runs whose grow phase ended with insert_index = stop).
C4_ShrinkEndsAtStart ==
    (bm_start >= bm_length /\ bm_length >= 1 /\ bm_start < stop /\ bm_interval >= 1
       /\ insert_index = stop /\ pc = "sid_done")
        => data_structure_size = bm_start

\* C18: exactly bm_start untimed inserts precede the first measurement; in the
\* n-th grow iteration the search point and the insert point are recorded at
\* the same x, the value of insert_index before that iteration's timed inserts
\* (first x = bm_start); the timed search consumes
\* search_samples[search_index, search_index + bm_length) and the timed insert
\* insert_samples[insert_index, insert_index + bm_length); each stream is
\* consumed in index order without skipping or repeating an index.
C18_GrowPointsAndStreams ==
    /\ Len(insert_plot) <= Len(search_plot) /\ Len(search_plot) <= Len(insert_plot) + 1
    /\ search_plot # <<>> => search_plot[1].x = bm_start
    /\ \A n \in 1..Len(search_plot) :
          /\ search_plot[n].y = benchmark((n - 1) * bm_length, n * bm_length)
          /\ n <= Len(insert_plot) => insert_plot[n].x = search_plot[n].x
          /\ n > 1 => search_plot[n].x = Max(insert_plot[n - 1].x + bm_length,
                                             Min(bm_start + (n - 1) * bm_interval, stop))
    /\ \A n \in 1..Len(insert_plot) :
          insert_plot[n].y = benchmark(insert_plot[n].x, insert_plot[n].x + bm_length)
    /\ pc \in {"sid_grow", "sid_grow_d", "sid_grow_e", "sid_step3", "sid_shrink",
               "sid_shrink_b", "sid_done"} =>
          /\ insert_log = RangeSeq(0, insert_index)
          /\ search_log = RangeSeq(0, search_index)
          /\ search_index = Len(search_plot) * bm_length
    /\ pc = "sid_grow_d" => search_plot[Len(search_plot)].x = insert_index
    /\ pc = "sid_grow_e" =>
          insert_plot[Len(insert_plot)].x = insert_index - bm_length
    /\ (pc = "sid_grow" /\ search_plot = <<>>) => Len(insert_log) = bm_start

\* A grow phase of two or more iterations with untimed inserts between them has
\* ended.
C18_Witness ==
    /\ pc = "sid_step3"
    /\ Len(insert_plot) >= 2 /\ Len(search_plot) = Len(insert_plot)
    /\ bm_length < bm_interval
    /\ insert_plot[1].x = bm_start /\ bm_start > 0

\* The value next_benchmark had at the start of the n-th timed delete window:
\* step 3 sets it to last_benchmark + bm_length, every window lowers it by
\* bm_interval.
ShrinkBoundary(n) == last_benchmark[1] + bm_length - (n - 1) * bm_interval

\* At the start of every timed delete window the size is next_benchmark, and
\* the window's point has x = next_benchmark - bm_length.
ShrinkOnBoundary ==
    /\ pc = "sid_shrink_b" => data_structure_size = next_benchmark
    /\ \A n \in 1..Len(delete_plot) : delete_plot[n].x = ShrinkBoundary(n) - bm_length

\* C19: in the shrink phase, at the start of every timed delete window
\* data_structure_size = next_benchmark, and the point recorded for that window
\* has x = next_benchmark - bm_length, the size after the timed deletions; for
\* every bm_interval >= 1.
C19_ShrinkWindowsOnBoundary ==
    (bm_start >= bm_length /\ bm_length >= 1 /\ bm_interval >= 1) => ShrinkOnBoundary

\* The same for the configurations with bm_interval >= bm_length.
C19_OnBoundaryWithoutOverlap ==
    (bm_start >= bm_length /\ bm_length >= 1 /\ bm_interval >= bm_length)
        => ShrinkOnBoundary

\* C8 as stated: when a sample list is shorter than its stated minimum the run
\* aborts with no partial output: no insert, search or delete is applied, no
\* point is recorded, and the run does not complete (stated here for
\* bm_length <= bm_start < stop, where no other error is in the way).
C8_ShortSamplesNoPartialOutput ==
    (bm_start >= bm_length /\ bm_start < stop /\ ~SamplesSuffice)
        => NothingApplied /\ NothingPlotted /\ pc # "sid_done"

\* C8, amended: the lengths are not checked up front.  An IndexError is raised
\* only at the first read past the end of a sample list, every earlier sample
\* of each list having been passed on in index order; with bm_start >=
\* bm_length and len(insert_samples) < stop the run always ends in that
\* IndexError and never completes.
C8_IndexErrorAtFirstShortRead ==
    /\ insert_log = RangeSeq(0, Len(insert_log))
    /\ search_log = RangeSeq(0, Len(search_log))
    /\ delete_log = RangeSeq(0, Len(delete_log))
    /\ Len(insert_log) <= len_insert
    /\ Len(search_log) <= len_search
    /\ Len(delete_log) <= len_delete
    /\ (pc = "sid_error" /\ err = "IndexError") =>
          \/ err_index = len_insert /\ Len(insert_log) = len_insert
          \/ err_index = len_search /\ Len(search_log) = len_search
          \/ err_index = len_delete /\ Len(delete_log) = len_delete
    /\ pc = "sid_done" => len_insert >= stop
    /\ (len_insert < stop /\ bm_start >= bm_length /\ pc \in {"sid_done", "sid_error"})
          => pc = "sid_error" /\ err = "IndexError"

\* SIDBenchmark has completed although delete_samples and search_samples are
\* shorter than their stated minimum.
C8_CompletesOnShortLists ==
    pc = "sid_done" /\ len_delete < stop /\ len_search < SearchNeeded

\* A run that fails on a short insert list after points were recorded.
C8_Witness ==
    /\ pc = "sid_error" /\ err = "IndexError"
    /\ len_insert < stop /\ err_index = len_insert
    /\ insert_plot # <<>> /\ search_plot # <<>>

Unrecognized(t) == t # SEARCH /\ t # INSERT /\ t # DELETE

\* The 0-based positions of the unrecognized tags, and the first of them.
BadPositions == {i \in 0..(Len(operations) - 1) : Unrecognized(operations[i + 1])}
FirstBad == CHOOSE i \in BadPositions : \A j \in BadPositions : i <= j

\* How often operations[i] was handed to doOperation.
Applied(i) == Cardinality({j \in 1..Len(op_log) : op_log[j].i = i})

\* The size change a tag stands for: +1 INSERT, -1 DELETE, 0 SEARCH.
Delta(t) == IF t = INSERT THEN 1 ELSE IF t = DELETE THEN -1 ELSE 0

\* s plus the deltas of operations[lo .. hi] (0-based, inclusive).
RunningSize(s, lo, hi) ==
    s + Cardinality({i \in lo..hi : operations[i + 1] = INSERT})
      - Cardinality({i \in lo..hi : operations[i + 1] = DELETE})

\* The sequence s sorted in increasing order.
SortOf(s) ==
    CHOOSE t \in [1..Len(s) -> {s[i] : i \in 1..Len(s)}] :
        /\ \A i \in 1..(Len(s) - 1) : t[i] <= t[i + 1]
        /\ \A v \in {s[i] : i \in 1..Len(s)} :
              Cardinality({i \in 1..Len(s) : t[i] = v})
                = Cardinality({i \in 1..Len(s) : s[i] = v})

\* Twice the median of s: the middle of the sorted values, or the sum of the
\* two middle ones.
TwiceMedian(s) ==
    LET t == SortOf(s)
        n == Len(s)
    IN  IF n % 2 = 1 THEN 2 * t[(n + 1) \div 2] ELSE t[n \div 2] + t[(n \div 2) + 1]

\* One plotSizes window follows the partial-sum/median rule.
WindowFollowsRule ==
    (pc = "ps_loop" /\ plot' # plot) =>
        LET pp == current_benchmark
            q  == Min(pp + bm_length, Len(operations))
            nx == Min(pp + bm_interval, Len(operations))
            running == [j \in 1..(q - pp) |-> RunningSize(size, pp, pp + j - 1)]
        IN  /\ plot' = Append(plot, [x |-> pp, y2 |-> TwiceMedian(running)])
            /\ (pc' = "ps_loop") =>
                  size' = RunningSize(running[Len(running)], q, nx - 1)

\* The series of the scenario [INSERT]*4+[SEARCH]*4+[INSERT]*4+[DELETE]*4,
\* bm_start = 4, bm_length = 4, bm_interval = 8: (4, 4), (12, 5.5).
ScenarioSeries ==
    (operations = ScenarioOps /\ pc = "ps_done") =>
        /\ plot = <<[x |-> 4, y2 |-> 2 * 4], [x |-> 12, y2 |-> 11]>>
        /\ sim_plot = <<plot>>

\* C5: plotSizes records for the window [p, q), q = min(p + bm_length,
\* len(operations)), at x = p the median of the q - p running sizes that start
\* from the current size, then sets size to the last running size and adds the
\* deltas of the untimed operations up to the next window; the scenario's
\* series is exactly (4, 4), (12, 5.5).
C5_PartialSumMedian == [][WindowFollowsRule]_vars /\ []ScenarioSeries

\* plotSizes has returned the scenario's two points.
C5_Witness ==
    /\ pc = "ps_done" /\ operations = ScenarioOps
    /\ Len(plot) = 2 /\ sim_plot = <<plot>>

\* C10 as stated (for bm_start >= 0, bm_length >= 1, bm_interval >= 1): the first unrecognized tag in sequence order raises
\* ValueError; every operation before it has been applied exactly once and none
\* at or after it; plotSizes raises at the same tag and returns no series.
C10_FirstUnknownTagAbortsOnce ==
    (BadPositions # {} /\ bm_start >= 0 /\ bm_length >= 1 /\ bm_interval >= 1) =>
        /\ pc \notin {"mx_done", "ps_done"}
        /\ \A i \in 0..(Len(operations) - 1) : i >= FirstBad => Applied(i) = 0
        /\ pc = "mx_error" =>
              /\ err = "ValueError: op" /\ err_index = FirstBad
              /\ \A i \in 0..(FirstBad - 1) : Applied(i) = 1
        /\ pc = "ps_error" =>
              /\ err = "ValueError: op" /\ err_index = FirstBad
              /\ sim_plot = <<>>

\* C10, amended (bm_start >= 0, bm_length >= 1, bm_interval >= 1): as stated,
\* except that an operation before the unrecognized tag has been applied at
\* least once, and exactly once when bm_length <= bm_interval (overlapping
\* windows re-apply operations).
C10_FirstUnknownTagAborts ==
    (BadPositions # {} /\ bm_start >= 0 /\ bm_length >= 1 /\ bm_interval >= 1) =>
        /\ pc \notin {"mx_done", "ps_done"}
        /\ \A i \in 0..(Len(operations) - 1) : i >= FirstBad => Applied(i) = 0
        /\ pc = "mx_error" =>
              /\ err = "ValueError: op" /\ err_index = FirstBad
              /\ \A i \in 0..(FirstBad - 1) : Applied(i) >= 1
              /\ bm_length <= bm_interval =>
                    \A i \in 0..(FirstBad - 1) : Applied(i) = 1
        /\ pc = "ps_error" =>
              /\ err = "ValueError: op" /\ err_index = FirstBad
              /\ sim_plot = <<>>

\* A replay stopped by an unrecognized tag inside a timed window, after a
\* ramp-up and earlier operations.
C10_Witness ==
    /\ pc = "mx_error" /\ err = "ValueError: op"
    /\ bm_start >= 1 /\ err_index > bm_start
    /\ \E j \in 1..Len(op_log) : op_log[j].timed
    /\ err_index < Len(operations) - 1

(***************************************************************************)
(* Properties of the simulated size series (checked under SpecMixed).      *)
(***************************************************************************)
\* plotSizes is running.
InPlotSizes == pc \in {"ps_new", "ps_loop"}

\* A step of plotSizes leaves the log of the calls made on the structure, the
\* operations list and the timed series as they were.
PlotSizesStepTouchesNothing ==
    InPlotSizes =>
        op_log' = op_log /\ operations' = operations /\ coordinates' = coordinates

\* C21: computing the simulated size series never invokes search, insert or
\* delete: the structure under test is in the same state after plotSizes as
\* before it, and the operations list is unchanged.
C21_PlotSizesTouchesNothing == [][PlotSizesStepTouchesNothing]_vars

\* plotSizes has returned two or more points for a plot whose replay had
\* applied operations to the structure.
C21_Witness ==
    /\ pc = "ps_done" /\ Len(plot) >= 2
    /\ op_log # <<>> /\ Len(coordinates) = Len(plot)

\* The operations are N INSERTs and bm_start <= N.
AllInserts ==
    /\ \A i \in 1..Len(operations) : operations[i] = INSERT
    /\ bm_start <= Len(operations) /\ bm_length >= 1 /\ bm_interval >= 1

\* The values of the simulated series rise from every point to the next.
ValuesIncrease == \A n \in 1..(Len(plot) - 1) : plot[n].y2 < plot[n + 1].y2

\* The running size is the number of operations before the loop position, and
\* every point is the median of the running counts p+1 .. q of its window.
SizeIsRunningCount ==
    /\ pc \in {"ps_loop", "ps_done"} => size = current_benchmark
    /\ \A n \in 1..Len(plot) :
          plot[n].y2 = (plot[n].x + 1) + Min(plot[n].x + bm_length, Len(operations))

\* C22 as stated: for N INSERTs and any bm_start <= N, bm_length >= 1,
\* bm_interval >= 1 the simulated size series is strictly increasing in value
\* and the running size carried out of each window equals the running count.
C22_AllInsertRunningCount ==
    (AllInserts /\ (InPlotSizes \/ pc = "ps_done")) =>
        ValuesIncrease /\ SizeIsRunningCount

\* C22, amended: the series is strictly increasing for every such
\* configuration; the running size equals the running count when
\* bm_length <= bm_interval, and is never below it otherwise (the operations of
\* overlapping windows are counted once per window).
C22_RunningCountWithoutOverlap ==
    (AllInserts /\ (InPlotSizes \/ pc = "ps_done")) =>
        /\ ValuesIncrease
        /\ bm_length <= bm_interval => SizeIsRunningCount
        /\ pc \in {"ps_loop", "ps_done"} => size >= current_benchmark

\* plotSizes has returned two or more points for an all-INSERT sequence with
\* untimed operations between the windows.
C22_Witness ==
    /\ pc = "ps_done" /\ AllInserts /\ Len(plot) >= 2
    /\ bm_length < bm_interval /\ bm_start >= 1
    /\ size = Len(operations)

\* The tags of the window [p, q) that is about to be measured.
WindowTags ==
    [j \in 1..(Min(current_benchmark + bm_length, Len(operations)) - current_benchmark)
        |-> operations[current_benchmark + j]]

\* The window holds no size-changing operation.
NoSizeChange(w) == \A j \in 1..Len(w) : w[j] = SEARCH

\* The window is INSERT, DELETE, INSERT, DELETE, ...: equal numbers of each.
AlternatingInsertDelete(w) ==
    /\ Len(w) >= 2 /\ Len(w) % 2 = 0
    /\ \A j \in 1..Len(w) : w[j] = (IF j % 2 = 1 THEN INSERT ELSE DELETE)

\* The point a window adds is (current_benchmark, v/2).
WindowReports(v) == plot' = Append(plot, [x |-> current_benchmark, y2 |-> v])

\* A window without size-changing operations reports the size at its start.
QuietWindowReportsStart ==
    (pc = "ps_loop" /\ plot' # plot /\ NoSizeChange(WindowTags)) => WindowReports(2 * size)

\* As stated: an alternating insert/delete window reports the size at its start.
AlternatingWindowReportsStart ==
    (pc = "ps_loop" /\ plot' # plot /\ AlternatingInsertDelete(WindowTags))
        => WindowReports(2 * size)

\* What the code does: it reports the size at its start plus one half, the
\* median of the sizes s+1, s, s+1, s, ... after each operation.
AlternatingWindowReportsHalfAbove ==
    (pc = "ps_loop" /\ plot' # plot /\ AlternatingInsertDelete(WindowTags))
        => WindowReports(2 * size + 1)

\* The series of the test's sequence (y doubled).
TestSeries(last) ==
    (operations = TestOps /\ pc = "ps_done") =>
        plot = <<[x |-> 4, y2 |-> 8], [x |-> 12, y2 |-> 13], [x |-> 20, y2 |-> 11],
                 [x |-> 28, y2 |-> last]>>

Increasing(series) == \A n \in 1..(Len(series) - 1) : series[n].x < series[n + 1].x
Decreasing(series) == \A n \in 1..(Len(series) - 1) : series[n].x > series[n + 1].x

\* The series the windowed engine and the combiner have returned, the timed
\* series of mixed replay and the simulated size series have increasing x
\* (the lists still being filled: when the interval is positive).
ForwardSeriesIncrease ==
    /\ \A r \in 1..Len(runs) : Increasing(runs[r])
    /\ Increasing(self_coordinates)
    /\ \A n \in 1..Len(sim_plot) : Increasing(sim_plot[n])
    /\ (benchmark_interval >= 1 /\ bm_interval >= 1) =>
          Increasing(coordinates) /\ Increasing(plot)
    /\ bm_length >= 1 => Increasing(search_plot) /\ Increasing(insert_plot)

\* C20 as stated: in every series the engines produce, the delete series of
\* SIDBenchmark included, the x positions are strictly increasing in the order
\* the points are appended.
C20_AllSeriesIncrease ==
    ForwardSeriesIncrease /\ (bm_length >= 1 => Increasing(delete_plot))

\* C20, amended: the x positions are strictly increasing in the windowed and
\* combined series, the SID search and insert series, the mixed timed series
\* and the simulated size series; in the SID delete series they are strictly
\* decreasing.
C20_DeleteSeriesDecreases ==
    ForwardSeriesIncrease /\ (bm_length >= 1 => Decreasing(delete_plot))

\* A SIDBenchmark has completed with two or more points in each of its series.
C20_Witness ==
    /\ pc = "sid_done"
    /\ Len(search_plot) >= 2 /\ Len(insert_plot) >= 2 /\ Len(delete_plot) >= 2
    /\ delete_plot[1].x > delete_plot[2].x

\* Series of two or more points of the other engines.
C20_WindowedCase == pc = "bp_done" /\ repeat >= 2 /\ Len(self_coordinates) >= 2
C20_MixedCase == pc = "mx_done" /\ Len(coordinates) >= 2
C20_SizesCase == pc = "ps_done" /\ Len(sim_plot) = 1 /\ Len(sim_plot[1]) >= 2

(***************************************************************************)
(* Properties of the binary search tree (checked under SpecBST for the     *)
(* recursive implementation, under SpecBSTIter for the iterative one).     *)
(***************************************************************************)
\* The number of nodes of t that hold k.
RECURSIVE Count(_, _)
Count(t, k) ==
    IF t = None THEN 0
    ELSE (IF Key(t) = k THEN 1 ELSE 0) + Count(Left(t), k) + Count(Right(t), k)

\* What search(k) has to return when k was inserted more often than deleted.
Expected(k) == IF bag[k] > 0 THEN <<k>> ELSE None

\* C24: on the binary search tree, after any sequence of insert and delete
\* calls over distinct keys (no key is inserted while it is in the tree),
\* search(k) returns k if k has been inserted and not deleted since, and None
\* otherwise, on the empty tree and for keys deleted earlier as well; the
\* search call that was made returned just that.
C24_SearchFindsWhatIsPresent ==
    (pc = "bst" /\ impl = "recursive" /\ distinct) =>
        /\ \A k \in 1..MaxKey : search(tree, k) = Expected(k)
        /\ bst_result.call = "search" => bst_result.found = Expected(bst_result.key)

\* A search on a tree of distinct keys that is one node short of full returned
\* its key, which is not at the root, while another key is not in the tree.
C24_Witness ==
    /\ pc = "bst" /\ impl = "recursive" /\ distinct
    /\ bst_result.call = "search"
    /\ bst_result.found = <<bst_result.key>>
    /\ Size(tree) >= MaxNodes - 1
    /\ Key(tree) # bst_result.key
    /\ \E k \in 1..MaxKey : bag[k] = 0

\* A search on the empty tree returned None.
C24_EmptyTree ==
    /\ pc = "bst" /\ impl = "recursive" /\ tree = None
    /\ bst_result.call = "search" /\ bst_result.found = None

\* A step in which delete(k) is called on the tree.
DeleteCalled == bst_result'.call = "delete"

\* delete(k) on a tree that holds k returns True, takes out exactly one node
\* holding k and leaves every key of the tree that still is in it found.
DeletePresent(k) ==
    /\ bst_result'.deleted
    /\ Count(tree', k) = Count(tree, k) - 1
    /\ \A j \in 1..MaxKey : j # k => Count(tree', j) = Count(tree, j)
    /\ \A j \in 1..MaxKey :
          search(tree', j) = IF Count(tree', j) > 0 THEN <<j>> ELSE None

\* delete(k) on a tree that does not hold k returns False and leaves the tree
\* as it was.
DeleteAbsent(k) ==
    /\ ~bst_result'.deleted
    /\ tree' = tree

DeleteContract ==
    DeleteCalled =>
        IF Count(tree, bst_result'.key) > 0
          THEN DeletePresent(bst_result'.key)
          ELSE DeleteAbsent(bst_result'.key)

\* C25: BinarySearchTree.delete(k) returns True and removes exactly one node
\* holding k when k is in the tree, leaving every other key still found by
\* search, and returns False leaving the tree unchanged when k is absent or
\* the tree is empty, whatever the structural case of the node removed (leaf,
\* only a left child, only a right child, two children whose right child has
\* no left subtree, two children with a deeper in-order successor) and whether
\* it is the root or below it.
C25_DeleteRemovesOneNode == [][impl = "recursive" => DeleteContract]_vars

\* A node with two children and a deeper in-order successor was deleted below
\* the root.
C25_Witness ==
    /\ impl = "recursive"
    /\ bst_result.call = "delete" /\ bst_result.deleted
    /\ bst_result.case = "deeper successor" /\ ~bst_result.at_root

\* A delete that removed a node in structural case c, at the root (r) or below.
DeletedAs(c, r) ==
    /\ impl = "recursive"
    /\ bst_result.call = "delete" /\ bst_result.deleted
    /\ bst_result.case = c /\ bst_result.at_root = r

C25_LeafAtRoot == DeletedAs("leaf", TRUE)
C25_LeafBelow == DeletedAs("leaf", FALSE)
C25_LeftOnlyAtRoot == DeletedAs("left only", TRUE)
C25_LeftOnlyBelow == DeletedAs("left only", FALSE)
C25_RightOnlyAtRoot == DeletedAs("right only", TRUE)
C25_RightOnlyBelow == DeletedAs("right only", FALSE)
C25_RightChildAtRoot == DeletedAs("right child without left", TRUE)
C25_RightChildBelow == DeletedAs("right child without left", FALSE)
C25_SuccessorAtRoot == DeletedAs("deeper successor", TRUE)
C25_AbsentKey == impl = "recursive" /\ bst_result.call = "delete" /\ ~bst_result.deleted
                   /\ tree # None

\* C26: the iterative binary search tree keeps repeated identical values as a
\* multiset: after n inserts of k and m deletes of k that returned True, in
\* between calls on other keys, search(k) returns k iff n > m and a further
\* delete(k) returns True iff n > m.
C26_MultisetOfKeys ==
    (pc = "bst" /\ impl = "iterative") =>
        \A k \in 1..MaxKey :
            /\ bag[k] >= 0
            /\ search(tree, k) = Expected(k)
            /\ delete(tree, k).found = (bag[k] > 0)
            /\ Count(tree, k) = bag[k]

\* A key that was in the tree twice has been deleted once, among other keys.
C26_Witness ==
    /\ pc = "bst" /\ impl = "iterative" /\ ~distinct
    /\ bst_result.call = "delete" /\ bst_result.deleted
    /\ bag[bst_result.key] = 1
    /\ Size(tree) >= MaxNodes - 1
    /\ \E k \in 1..MaxKey : bag[k] > 1

(***************************************************************************)
(* Properties of the graph set and of the generated samples.               *)
(***************************************************************************)
\* The graph set that is being built, or was built last.
CurrentGraphs == graphs[Len(graphs)]

\* What a graph set that has written its three documents leaves behind.
GraphSetDocuments ==
    write(write(write({}, <<"search", data_set>>, CurrentGraphs.search),
                <<"insert", data_set>>, CurrentGraphs.insert),
          <<"delete", data_set>>, CurrentGraphs.delete)

\* A graph holds one series per data structure, in the order of the lists.
SeriesInOrder(plots, field) ==
    plots = [i \in 1..structures |-> [of |-> i, coordinates |-> benchmarks[i][field]]]

OneSeriesPerStructure ==
    /\ Len(benchmarks) = structures
    /\ SeriesInOrder(CurrentGraphs.search, "search_plot")
    /\ SeriesInOrder(CurrentGraphs.insert, "insert_plot")
    /\ SeriesInOrder(CurrentGraphs.delete, "delete_plot")

\* C27: when construction of a SIDGraphSet completes, the search, insert and
\* delete documents have each been written to their filename, each holding one
\* series per data structure in the order of the searches / inserts / deletes
\* lists.
C27_ThreeDocumentsWritten ==
    pc = "gs_done" => (OneSeriesPerStructure /\ GraphSetDocuments \subseteq written)

\* What does hold when the construction completes: the three graphs hold their
\* series in order, and no document has been written.
C27_SeriesInOrderNothingWritten ==
    pc = "gs_done" => (OneSeriesPerStructure /\ written = {})

\* C28: on the sample sets returned by generateRandomSIDSampleSet(stop,
\* bm_start, bm_length, bm_interval) with bm_length <= bm_start < stop and
\* bm_interval >= 1, a SIDBenchmark with the same parameters never reads a
\* sample list at an index outside the list: no IndexError, and
\* search_index <= len(search_samples), insert_index <= stop and
\* delete_index <= stop at all times.
C28_GeneratedSamplesSuffice ==
    /\ err # "IndexError"
    /\ search_index <= len_search
    /\ insert_index <= stop
    /\ delete_index <= stop

\* What does hold: search_samples is never short, and a read outside a list is
\* a read of insert_samples[stop] in a timed insert window.
C28_OnlyInsertWindowOverruns ==
    /\ search_index <= len_search /\ insert_index <= stop /\ delete_index <= stop
    /\ err = "IndexError" =>
          /\ err_index = stop
          /\ insert_index + bm_length > stop
          /\ Len(search_plot) = Len(insert_plot) + 1

\* A step of any engine leaves every sample list and operations list as it was.
SamplesUntouched ==
    /\ len_search' = len_search /\ len_insert' = len_insert /\ len_delete' = len_delete
    /\ operations' = operations

\* A step leaves every series that is in a graph in its place and as it was.
AddedSeriesKept ==
    \A d \in 1..Len(graphs) :
        /\ d <= Len(graphs')
        /\ \A g \in {"search", "insert", "delete"} :
              \A i \in 1..Len(graphs[d][g]) :
                  /\ i <= Len(graphs'[d][g])
                  /\ graphs'[d][g][i] = graphs[d][g][i]

\* C29: no engine (windowed engine, multi-pass combiner, SIDBenchmark, mixed
\* replay, plotSizes) writes to a sample stream or operations list, which are
\* element for element the same after a run as before it, and a series already
\* added to a graph is not modified by later runs.
C29_InputsAndAddedSeriesKept == [][SamplesUntouched /\ AddedSeriesKept]_vars

\* A later SIDBenchmark is applying samples while the graphs of the first data
\* set hold the series of every structure.
C29_Witness ==
    /\ data_set > 1 /\ pc = "sid_shrink"
    /\ delete_log # <<>>
    /\ structures > 1
    /\ Len(graphs[1].search) = structures
    /\ graphs[1].search[1].coordinates # <<>>

\* A SIDBenchmark of graphSID is running, on the structure Current.
InSIDRun ==
    /\ data_set > 0
    /\ pc \in {"sid_new", "sid_ramp", "sid_grow", "sid_grow_d", "sid_grow_e",
               "sid_step3", "sid_shrink", "sid_shrink_b", "sid_done", "sid_error"}

Current == Len(benchmarks) + 1

\* The elements the structure held when the window of pt started: those it held
\* when the run began and the pt.x inserts of the run made before the window.
ActualAt(pt) == held[Current] + pt.x

\* C30: every SIDBenchmark run started through graphSID / SIDGraphSet begins on
\* an empty structure, so that the x of each search and insert point is the
\* number of elements the structure holds when that window starts, in the 2nd
\* and later data sets too.
C30_EveryRunBeginsEmpty ==
    InSIDRun =>
        /\ held[Current] = 0
        /\ \A n \in 1..Len(search_plot) : search_plot[n].x = ActualAt(search_plot[n])
        /\ \A n \in 1..Len(insert_plot) : insert_plot[n].x = ActualAt(insert_plot[n])

\* What does hold: the runs of the first data set begin on an empty structure,
\* and the later ones on what the runs before left in it.
C30_FirstDataSetBeginsEmpty ==
    InSIDRun =>
        /\ data_set = 1 => held[Current] = 0
        /\ data_set > 1 => held[Current] > 0

(***************************************************************************)
(* Properties of SIDBenchmark on generated samples (SpecGenerated).        *)
(***************************************************************************)
\* The batch of search_samples that index i belongs to: every batch has
\* bm_length samples.
BatchOf(i) == i \div bm_length

\* C31: with the sample sets of generateRandomSIDSampleSet, every value searched
\* in the k-th timed search window has been inserted by then: the window reads
\* exactly batch k of search_samples, batch k is drawn from
\* insert_samples[0 : bm_start + k*bm_interval], and insert_index is at least
\* bm_start + k*bm_interval when the batch is searched.
C31_SearchedValuesAreInserted ==
    /\ Len(search_log) = Len(search_plot) * bm_length
    /\ pc = "sid_grow_d" =>
          search_plot[Len(search_plot)].x = Len(insert_log)
    /\ \A n \in 1..Len(search_plot) :
          LET pt == search_plot[n]
          IN  /\ pt.y.lo = (n - 1) * bm_length
              /\ pt.y.hi = n * bm_length
              /\ pt.x >= bm_start + (n - 1) * bm_interval
              /\ \A i \in pt.y.lo..(pt.y.hi - 1) :
                    BatchSource(BatchOf(i), stop, bm_start, bm_interval) <= pt.x

\* The third batch has just been searched, in a configuration whose windows are
\* shorter than the interval.
C31_Witness ==
    /\ pc = "sid_grow_d"
    /\ bm_length < bm_interval
    /\ Len(search_plot) > 2
    /\ Len(search_log) = Len(search_plot) * bm_length

(***************************************************************************)
(* Overlapping windows (checked under SpecAll).                            *)
(***************************************************************************)
\* The windows of a schedule (first x s0, step iv, width ln, end e) that hold
\* index i, as the k of their x = s0 + k*iv.
WindowsOver(i, s0, ln, iv, e) ==
    {k \in 0..e : /\ s0 + k * iv < e
                  /\ s0 + k * iv <= i
                  /\ i < Min(s0 + k * iv + ln, e)}

\* Index i lies in [x_k + iv, min(x_k + ln, e)) for some window k.
InOverlap(i, s0, ln, iv, e) ==
    \E k \in 0..e : /\ s0 + k * iv < e
                    /\ s0 + k * iv + iv <= i
                    /\ i < Min(s0 + k * iv + ln, e)

\* How often function was applied to samples[i] inside a timed window of pass k.
TimedCallCount(k, i) ==
    Cardinality({j \in 1..Len(calls) :
                    calls[j].pass = k /\ calls[j].i = i /\ calls[j].timed})

\* How often operations[i] was replayed inside a timed window.
TimedApplied(i) ==
    Cardinality({j \in 1..Len(op_log) : op_log[j].i = i /\ op_log[j].timed})

\* The deltas of the operations at the 0-based positions in S, added up.
DeltaOver(S) ==
    Cardinality({i \in S : operations[i + 1] = INSERT})
      - Cardinality({i \in S : operations[i + 1] = DELETE})

\* The deltas of all the windows k, k+1, ... that start before position c.
RECURSIVE WindowsDelta(_, _)
WindowsDelta(k, c) ==
    LET x == bm_start + k * bm_interval
    IN  IF x >= c THEN 0
        ELSE DeltaOver(x..(Min(x + bm_length, Len(operations)) - 1))
               + WindowsDelta(k + 1, c)

\* The windowed engine with overlapping windows: points on the schedule and
\* no untimed call from window_start on, in every finished pass.
OverlapBP == benchmark_length > benchmark_interval /\ benchmark_interval >= 1

OverlapScheduleBP ==
    \A r \in 1..Len(runs) :
        /\ Len(runs[r]) = Cardinality(PointIndexes)
        /\ \A n \in 1..Len(runs[r]) :
              runs[r][n].x = benchmark_start + (n - 1) * benchmark_interval
        /\ \A j \in 1..Len(calls) :
              (calls[j].pass = r /\ ~calls[j].timed) => calls[j].i < benchmark_start
        /\ \A n \in 1..(Len(runs[r]) - 1) : runs[r][n + 1].y.lo < runs[r][n].y.hi

\* The same for a finished mixed replay and a finished plotSizes.
OverlapMixed ==
    /\ bm_length > bm_interval /\ bm_interval >= 1
    /\ bm_start <= Len(operations)

MixedPointIndexes == {k \in 0..Len(operations) : bm_start + k * bm_interval < Len(operations)}

OverlapScheduleMixed ==
    /\ pc = "mx_done" =>
          /\ Len(coordinates) = Cardinality(MixedPointIndexes)
          /\ \A n \in 1..Len(coordinates) :
                coordinates[n].x = bm_start + (n - 1) * bm_interval
          /\ \A j \in 1..Len(op_log) : ~op_log[j].timed => op_log[j].i < bm_start
    /\ pc = "ps_done" =>
          /\ Len(plot) = Cardinality(MixedPointIndexes)
          /\ \A n \in 1..Len(plot) : plot[n].x = bm_start + (n - 1) * bm_interval

\* C32 as stated: when window_length > window_interval >= 1 the points stay at
\* x = window_start + k*window_interval, nothing is run untimed after the
\* ramp-up, successive windows overlap, and every index in
\* [x_k + window_interval, min(x_k + window_length, stop)) is passed to function
\* twice; mixed replay does the same, and plotSizes counts the deltas of those
\* operations twice.
C32_OverlapEachIndexTwice ==
    /\ OverlapBP =>
          /\ OverlapScheduleBP
          /\ \A r \in 1..Len(runs) : \A i \in 0..(stop - 1) :
                InOverlap(i, benchmark_start, benchmark_length, benchmark_interval, stop)
                    => TimedCallCount(r, i) = 2
    /\ OverlapMixed =>
          /\ OverlapScheduleMixed
          /\ pc = "mx_done" =>
                \A i \in 0..(Len(operations) - 1) :
                    InOverlap(i, bm_start, bm_length, bm_interval, Len(operations))
                        => TimedApplied(i) = 2
          /\ pc = "ps_done" =>
                size = DeltaOver(0..(Len(operations) - 1))
                         + DeltaOver({i \in 0..(Len(operations) - 1) :
                              InOverlap(i, bm_start, bm_length, bm_interval,
                                        Len(operations))})

\* C32, amended: under the same condition the points stay on the schedule,
\* nothing is run untimed after the ramp-up and successive windows overlap;
\* every index from window_start on is passed to function once for each window
\* that holds it, which is at least twice for the indices in
\* [x_k + window_interval, min(x_k + window_length, stop)) and exactly twice
\* when window_length <= 2*window_interval; mixed replay does the same, and
\* plotSizes counts the deltas of every window in full.
C32_OverlapOncePerWindow ==
    /\ OverlapBP =>
          /\ OverlapScheduleBP
          /\ \A r \in 1..Len(runs) : \A i \in benchmark_start..(stop - 1) :
                /\ TimedCallCount(r, i)
                     = Cardinality(WindowsOver(i, benchmark_start, benchmark_length,
                                               benchmark_interval, stop))
                /\ CallCount(r, i) = TimedCallCount(r, i)
                /\ InOverlap(i, benchmark_start, benchmark_length,
                             benchmark_interval, stop)
                     => /\ TimedCallCount(r, i) >= 2
                        /\ benchmark_length <= 2 * benchmark_interval
                             => TimedCallCount(r, i) = 2
    /\ OverlapMixed =>
          /\ OverlapScheduleMixed
          /\ pc = "mx_done" =>
                \A i \in bm_start..(Len(operations) - 1) :
                    /\ TimedApplied(i)
                         = Cardinality(WindowsOver(i, bm_start, bm_length,
                                                   bm_interval, Len(operations)))
                    /\ Applied(i) = TimedApplied(i)
                    /\ InOverlap(i, bm_start, bm_length, bm_interval, Len(operations))
                         => /\ TimedApplied(i) >= 2
                            /\ bm_length <= 2 * bm_interval => TimedApplied(i) = 2
          /\ pc \in {"ps_loop", "ps_done"} =>
                size = DeltaOver(0..(bm_start - 1)) + WindowsDelta(0, current_benchmark)

\* plotSizes has returned after a replay whose windows overlap, with an
\* operation that three windows hold.
C32_Witness ==
    /\ pc = "ps_done"
    /\ OverlapMixed
    /\ op_log # <<>>
    /\ Len(plot) >= 3
    /\ \E i \in 0..(Len(operations) - 1) : TimedApplied(i) = 3

(***************************************************************************)
(* The shrink phase of SIDBenchmark (checked under SpecSID).               *)
(***************************************************************************)
\* The configurations whose windows do not overlap and whose first window
\* starts before stop.
SeparateWindows ==
    /\ bm_interval >= bm_length /\ bm_length >= 1
    /\ bm_length <= bm_start /\ bm_start < stop

\* C33: for bm_interval >= bm_length >= 1 and bm_length <= bm_start < stop the
\* x values of the delete series are the x values of the insert series in
\* reverse order: the n-th delete point is recorded at the size at which the
\* n-th last timed insert window started, and a finished run has no other
\* delete point.
C33_DeleteSeriesMirrorsInsertSeries ==
    SeparateWindows =>
        /\ Len(delete_plot) <= Len(insert_plot)
        /\ \A n \in 1..Len(delete_plot) :
              delete_plot[n].x = insert_plot[Len(insert_plot) - n + 1].x
        /\ pc = "sid_done" => Len(delete_plot) = Len(insert_plot)

\* A finished run with untimed stretches between its windows and two or more
\* points in each series.
C33_Witness ==
    /\ pc = "sid_done"
    /\ SeparateWindows /\ bm_interval > bm_length
    /\ Len(insert_plot) >= 2
    /\ Len(delete_plot) = Len(insert_plot)

\* The elements the structure holds according to the calls made so far.
Held == Len(insert_log) - Len(delete_log)

\* At the head of the shrink loop the size variable agrees with the calls made.
ShrinkHeadConsistent ==
    /\ data_structure_size = Len(insert_log) - delete_index
    /\ data_structure_size >= 0
    /\ delete_index <= Len(insert_log)

\* C34 as stated: for bm_start >= bm_length >= 1, at every head of the outer
\* shrink loop data_structure_size equals the number of inserts performed
\* minus delete_index, data_structure_size is not negative, and delete_index
\* does not exceed the number of inserts performed.
C34_ShrinkSizeConsistent ==
    (pc = "sid_shrink" /\ bm_start >= bm_length /\ bm_length >= 1)
        => ShrinkHeadConsistent

\* The same for the intervals bm_interval >= 0 only.
C34_ShrinkSizeConsistentNonNegativeInterval ==
    (pc = "sid_shrink" /\ bm_start >= bm_length /\ bm_length >= 1 /\ bm_interval >= 0)
        => ShrinkHeadConsistent

\* The first window would start at or after stop.
StartPastStop == bm_start >= stop /\ bm_start >= bm_length

\* No iteration of the grow loop has run and nothing is returned.
NoGrowIteration ==
    /\ pc \notin {"sid_grow_d", "sid_grow_e", "sid_shrink", "sid_shrink_b", "sid_done"}
    /\ search_plot = <<>> /\ insert_plot = <<>> /\ delete_plot = <<>>
    /\ last_benchmark = <<>>
    /\ search_log = <<>> /\ delete_log = <<>>

\* The run has failed at the start of the shrink phase, after bm_start inserts.
FailedAtShrinkStart ==
    /\ err = "UnboundLocalError"
    /\ Len(insert_log) = bm_start

\* C35 as stated: when bm_start >= stop (with bm_start >= bm_length) the run
\* performs the bm_start ramp-up inserts, runs no grow iteration and fails at
\* the start of the shrink phase because last_benchmark was never assigned; it
\* does not return three empty series.
C35_StartPastStopFailsAtShrink ==
    StartPastStop =>
        /\ NoGrowIteration
        /\ pc = "sid_error" => FailedAtShrinkStart

\* C35, amended: when bm_start >= stop (with bm_start >= bm_length) the run
\* never runs a grow iteration and never returns; when insert_samples holds
\* bm_start elements or more it performs the bm_start ramp-up inserts and
\* fails at the start of the shrink phase because last_benchmark was never
\* assigned; when insert_samples is shorter than bm_start it fails in the
\* ramp-up with IndexError, after len(insert_samples) inserts.
C35_StartPastStopNeverReturns ==
    StartPastStop =>
        /\ NoGrowIteration
        /\ pc = "sid_error" =>
              IF len_insert >= bm_start
                THEN FailedAtShrinkStart
                ELSE /\ err = "IndexError" /\ err_index = len_insert
                     /\ Len(insert_log) = len_insert
        /\ pc = "sid_step3" => Len(insert_log) = bm_start

\* A run with bm_start > stop has failed at the start of the shrink phase.
C35_Witness ==
    /\ pc = "sid_error" /\ err = "UnboundLocalError"
    /\ bm_start > stop /\ stop > 0 /\ bm_start >= bm_length
    /\ Len(insert_log) = bm_start

(***************************************************************************)
(* Termination of SIDBenchmark (checked under SpecSIDAnyFair).             *)
(***************************************************************************)
\* The three sample lists are long enough for the whole run.
AmpleSamples ==
    len_search = AmpleLength /\ len_insert = AmpleLength /\ len_delete = AmpleLength

\* One iteration of the grow loop moves insert_index up by bm_length or more,
\* one iteration of the shrink loop moves data_structure_size down by
\* bm_length or more.
LoopsProgress ==
    /\ (pc = "sid_grow" /\ pc' = "sid_grow_d") => insert_index' = insert_index
    /\ (pc = "sid_grow_d" /\ pc' = "sid_grow_e") =>
          insert_index' = insert_index + bm_length
    /\ (pc = "sid_grow_e" /\ pc' = "sid_grow") => insert_index' >= insert_index
    /\ (pc = "sid_shrink" /\ pc' = "sid_shrink_b") =>
          data_structure_size' <= data_structure_size
    /\ (pc = "sid_shrink_b" /\ pc' = "sid_shrink") =>
          data_structure_size' = data_structure_size - bm_length

\* C36: every SIDBenchmark run terminates, for every integer bm_interval, zero
\* and negative included: it returns or raises; with bm_length <= bm_start <
\* stop and sample lists that are long enough it returns; the grow loop ends
\* because insert_index rises by at least bm_length per iteration and the
\* shrink loop ends because data_structure_size falls by at least bm_length
\* per iteration.
C36_EveryRunTerminates ==
    /\ <>(pc \in {"sid_done", "sid_error"})
    /\ (AmpleSamples /\ bm_length <= bm_start /\ bm_start < stop) ~> (pc = "sid_done")
    /\ [][LoopsProgress]_vars

\* A run with a negative interval and several iterations of the grow loop has
\* returned.
C36_Witness ==
    /\ pc = "sid_done"
    /\ bm_interval < 0 /\ AmpleSamples
    /\ Len(insert_plot) >= 3 /\ Len(delete_plot) >= 1

(***************************************************************************)
(* Mixed replay against plotSizes (checked under SpecMixed).               *)
(***************************************************************************)
\* The series has one point for every x = bm_start + k*bm_interval below
\* len(operations), in increasing order, and no other point.
OnMixedSchedule(series) ==
    /\ Len(series) = Cardinality(MixedPointIndexes)
    /\ \A n \in 1..Len(series) : series[n].x = bm_start + (n - 1) * bm_interval

\* The replay of the operations has run before plotSizes.
Replayed == op_log # <<>> \/ operations = <<>>

\* C37: for any operation sequence and any bm_start <= len(operations),
\* bm_length >= 1, bm_interval >= 1, the timed series of the replay and the
\* simulated size series of plotSizes have the same number of points and the
\* same x positions, bm_start + k*bm_interval for every k >= 0 with
\* x < len(operations).
C37_SeriesShareXPositions ==
    (bm_start <= Len(operations) /\ bm_length >= 1 /\ bm_interval >= 1) =>
        /\ pc \in {"mx_done", "ps_new"} /\ Replayed => OnMixedSchedule(coordinates)
        /\ pc = "ps_done" => OnMixedSchedule(plot)
        /\ (pc = "ps_done" /\ Replayed) =>
              /\ Len(coordinates) = Len(plot)
              /\ \A n \in 1..Len(plot) : coordinates[n].x = plot[n].x

\* plotSizes has returned after the replay of a sequence with a ramp-up and
\* three windows or more.
C37_Witness ==
    /\ pc = "ps_done"
    /\ op_log # <<>>
    /\ bm_start > 0
    /\ Len(plot) >= 3 /\ Len(coordinates) = Len(plot)

\* The elements a multiset structure holds once the replay has passed position
\* c: one more for every insert call and one fewer for every delete call made
\* for an operation before c (a delete of a key that is present removes one
\* element).
HeldAt(c) ==
    Cardinality({j \in 1..Len(op_log) : op_log[j].i < c /\ op_log[j].fn = "insert"})
      - Cardinality({j \in 1..Len(op_log) : op_log[j].i < c /\ op_log[j].fn = "delete"})

\* Every DELETE of the sequence can target a key that is present: the
\* structure is not empty when it is reached.
DeletesHit ==
    \A c \in 1..Len(operations) :
        operations[c] = DELETE => DeltaOver(0..(c - 2)) >= 1

\* The end of the window plotSizes is about to simulate.
EndOfBenchmark == Min(Len(operations), current_benchmark + bm_length)

\* C38: when the sequence has been replayed on an initially empty multiset
\* structure, every DELETE targets a key that is present and
\* bm_length <= bm_interval, the running size of plotSizes at the end of every
\* measured window and at the end of every untimed stretch is the number of
\* elements the structure held at the same position of the sequence.
C38_SimulatedSizeIsRealSize ==
    (/\ pc \in {"ps_loop", "ps_done"}
     /\ op_log # <<>>
     /\ bm_start <= Len(operations) /\ bm_length <= bm_interval
     /\ DeletesHit) =>
        /\ size = HeldAt(current_benchmark)
        /\ size >= 0
        /\ current_benchmark < Len(operations) =>
              LET bm_sizes == BmSizes(size, current_benchmark, EndOfBenchmark)
              IN  bm_sizes[Len(bm_sizes)] = HeldAt(EndOfBenchmark)
        /\ pc = "ps_done" => size = HeldAt(Len(operations))

\* plotSizes has returned after the replay of a sequence with inserts and
\* deletes, two windows or more and untimed stretches between them.
C38_Witness ==
    /\ pc = "ps_done"
    /\ op_log # <<>>
    /\ bm_length < bm_interval /\ bm_start <= Len(operations)
    /\ DeletesHit
    /\ \E i \in 1..Len(operations) : operations[i] = DELETE
    /\ Len(plot) >= 2
    /\ size = HeldAt(Len(operations))

(***************************************************************************)
(* The shape of the iterative tree (checked under SpecBSTIter).            *)
(***************************************************************************)
\* The keys of a tree.
RECURSIVE Keys(_)
Keys(t) == IF t = None THEN {} ELSE {Key(t)} \cup Keys(Left(t)) \cup Keys(Right(t))

\* Every key in a node's left subtree is less than the node's key and every
\* key in its right subtree is greater than or equal to it, for every node.
RECURSIVE Ordered(_)
Ordered(t) ==
    \/ t = None
    \/ /\ \A k \in Keys(Left(t)) : k < Key(t)
       /\ \A k \in Keys(Right(t)) : k >= Key(t)
       /\ Ordered(Left(t)) /\ Ordered(Right(t))

\* C39: after any sequence of insert and delete calls, duplicates allowed, the
\* iterative binary search tree satisfies the ordering invariant (left subtree
\* strictly less, right subtree greater than or equal, at every node) and its
\* objects form a tree: no node is reachable by two paths and there is no
\* cycle.
C39_OrderedTree ==
    impl = "iterative" =>
        /\ IsTree(heap)
        /\ TreeOf(heap, heap.root) = tree
        /\ Ordered(TreeOf(heap, heap.root))

\* A key with a duplicate in the tree has just been deleted from a node with
\* two children whose successor lies deeper than its right child.
C39_Witness ==
    /\ impl = "iterative"
    /\ bst_result.call = "delete" /\ bst_result.deleted
    /\ bst_result.case = "deeper successor"
    /\ ~distinct
    /\ Size(tree) >= 3
    /\ IsTree(heap) /\ TreeOf(heap, heap.root) = tree

(***************************************************************************)
(* The recursive tree against the iterative tree (checked under SpecBST).  *)
(***************************************************************************)
\* On the tree t the two implementations agree for the key k: insert leaves
\* the same tree, search returns the same value, delete returns the same
\* value and leaves the same tree.
SameOutcome(t, k) ==
    /\ TreeInsert(t, k) = IterInsert(t, k)
    /\ TreeSearch(t, k) = IterSearch(t, k)
    /\ TreeDelete(t, k).found = IterDelete(t, k).found
    /\ TreeDelete(t, k).node = IterDelete(t, k).node

\* C40: the recursive tree and the iterative tree are equivalent: on every
\* tree that a sequence of insert, search and delete calls builds from empty,
\* every further call returns the same value in both and leaves the same
\* tree, shape and keys, so that the two stay equal after every call of every
\* sequence.
C40_RecursiveEqualsIterative ==
    impl = "recursive" => \A k \in 1..MaxKey : SameOutcome(tree, k)

\* A key with a duplicate has just been deleted by the recursive tree from a
\* node with two children whose successor lies deeper than its right child,
\* and the tree still has three nodes or more.
C40_Witness ==
    /\ impl = "recursive"
    /\ bst_result.call = "delete" /\ bst_result.deleted
    /\ bst_result.case = "deeper successor"
    /\ ~distinct
    /\ Size(tree) >= 3
    /\ \A k \in 1..MaxKey : SameOutcome(tree, k)

====
